---- MODULE Spec2Model ----
(***************************************************************************)
(* Client-side credential and reconciliation core of the grid game:        *)
(*   - useSessionKey (session key lifecycle hook),                         *)
(*   - lib/sessionKey (cache, SessionWallet),                              *)
(*   - GameBoard (dual-ledger view, fetch, push listeners, game commands). *)
(* The on-chain program and the two ledgers are the environment.           *)
(***************************************************************************)
EXTENDS Integers, Sequences, FiniteSets, TLC

\* ---------------------------------------------------------------- bounds
MaxOps == 2          \* operations started per behaviour, whole client (Spec)
MaxBoardOps == 3     \* the same, GameBoard with the connect effects (SpecBoard)
MaxSessionOps == 4   \* the same, useSessionKey alone (SpecSession)
MaxCmds == 2         \* lifecycle commands in flight at once (SpecSession)
MaxFullCmds == 1     \* the same, whole client (Spec)
MaxFetches == 1      \* effect-started fetchPlayerData calls that may be in flight
MaxPush == 1         \* undelivered notifications per ledger listener
MaxBatch == 2        \* transactions in one signAllTransactions call (SpecSign)
MaxSubEvents == 4    \* wallet and mount events (SpecSub)
MaxOldHookOps == 3   \* calls of the register-then-fund hook and ledger events (SpecOldHook)
MaxListOps == 1      \* fetchAllPlayers calls and listing changes (SpecList)
MaxDialogOps == 4     \* hook commands and wallet events under the setup dialog (SpecDialog)
MaxTimeoutOps == 2    \* the connect and one command (SpecTimeout)
MaxPushOps == 4       \* the connect and ledger changes made elsewhere (SpecPush)
MaxMoves == 4        \* movePlayer transactions of the test client (SpecMove)
MaxKeyOps == 3       \* calls into lib/sessionKey.ts (SpecKey)
MaxSubCalls == 2     \* subscribe / unsubscribe calls suspended at once (SpecSub)

\* ------------------------------------------------------- program constants
BOARD_SIZE == 100
JoinX == 10
JoinY == 10

\* --------------------------------------------------------------- constants
NoKey == "none"                 \* null session key / null Keypair
NoWallet == "none"              \* wallet not connected (publicKey null)
Identities == {"A"}
Corrupt == "corrupt"            \* a cache entry that does not deserialize

\* The key pair deriveSessionKey yields for an identity (signature is fixed
\* per identity and message, so the seed is too).
DerivedKey(id) == "K" \o id

\* PlayerData (GameBoard.tsx interface PlayerData); NoPlayer stands for null.
NoPlayer == [x |-> -1, y |-> -1, authority |-> "none", sessionKey |-> NoKey, isDelegated |-> FALSE]
PlayerData(rec, delegated) ==
    [x |-> rec.x, y |-> rec.y, authority |-> rec.authority,
     sessionKey |-> rec.sessionKey, isDelegated |-> delegated]

\* On-chain player account data; NoAccount stands for "no such account".
NoAccount == [x |-> -1, y |-> -1, authority |-> "none", sessionKey |-> NoKey]

\* The move deltas the model draws from (two of the eight buttons).
Deltas == {<<0, -10>>, <<-10, 0>>}

VARIABLES
    \* wallet adapter
    publicKey,          \* connected identity or NoWallet (wallet, connected, publicKey)
    \* ledgers (environment)
    baseOwner,          \* owner of the player account on the primary ledger
    baseData,           \* player record on the primary ledger
    erData,             \* player record on the rollup
    boardExists,        \* board account exists on the primary ledger
    \* GameBoard state
    basePlayer, erPlayer, isDelegated, loading, boardInitialized,
    gcmd,               \* the GameBoard command in flight
    fetches,            \* effect-started fetchPlayerData calls
    boardCheck,         \* checkBoardInitialized call of the mount effect in flight
    basePush, erPush,   \* notifications queued for the two listeners
    \* useSessionKey state
    sessionKey, sessionWallet, isRegistered, sessionLoading, cache,
    cmds,               \* lifecycle commands in flight
    restore,            \* restoreSessionKey call of the connect effect in flight
    regCheck,           \* checkRegistration call of the connect effect in flight
    \* observation
    lastTx,             \* the transaction most recently handed to a ledger
    last,               \* label of the step just taken
    ops,                \* operations started so far
    budget,             \* the bounds of this behaviour: [ops, cmds]
    \* SessionWallet signing
    txOrig,             \* the transactions as handed to the SessionWallet
    txs,                \* the same transaction objects (signing mutates them)
    signPc,             \* "idle", "ready", "returned" or "threw"
    \* GameBoard change listeners
    subId,              \* baseSubscriptionId.current, erSubscriptionId.current
    listeners,          \* the change listeners installed on each connection
    nextId,             \* each connection's next subscription handle
    subCalls,           \* subscribe / unsubscribe calls suspended at an await
    mounted,            \* the GameBoard component is mounted
    \* lib/sessionKey.ts
    storage,            \* localStorage: the session_key_<identity> entries
    keyEnv,             \* the wallet's signing interface and the page's origin
    keyOut,             \* what the last library call returned
    deriveRuns,         \* runs of deriveSessionKey per identity
    derivedKeys,        \* the key pairs deriveSessionKey returned, per identity
    \* GameBoard: all players
    ledgerPlayers,      \* what player.all() and getAccountInfo return on each ledger
    allPlayers,         \* the allPlayers state: an array of PlayerData
    \* SessionKeySetupDialog
    dialog              \* showSessionSetupDialog and the dialog's own state

vars == <<publicKey, baseOwner, baseData, erData, boardExists,
          basePlayer, erPlayer, isDelegated, loading, boardInitialized,
          gcmd, fetches, boardCheck, basePush, erPush,
          sessionKey, sessionWallet, isRegistered, sessionLoading, cache,
          cmds, restore, regCheck, lastTx, last, ops, budget, txOrig, txs, signPc,
          subId, listeners, nextId, subCalls, mounted,
          storage, keyEnv, keyOut, deriveRuns, derivedKeys, ledgerPlayers, allPlayers,
          dialog>>

subVars == <<subId, listeners, nextId, subCalls, mounted>>
keyVars == <<storage, keyEnv, keyOut, deriveRuns, derivedKeys>>
listVars == <<ledgerPlayers, allPlayers>>
restVars == <<budget, txOrig, txs, signPc, subVars, keyVars, listVars>>
auxVars == <<restVars, dialog>>

ledgerVars == <<baseOwner, baseData, erData, boardExists>>
viewVars == <<basePlayer, erPlayer, isDelegated>>
hookVars == <<sessionKey, sessionWallet, isRegistered, sessionLoading, cache>>
boardVars == <<basePlayer, erPlayer, isDelegated, loading, boardInitialized, gcmd, fetches,
               boardCheck>>

\* ------------------------------------------------------------ the ledgers
\* Which ledger currently controls the player account: ownership on the
\* primary ledger is the delegation signal.
Delegated == baseOwner = "delegation"

\* The on-chain move: each coordinate is the old one plus the delta, clamped
\* to the board.
\* (ClampOff lets the sum through unclamped.)
ClampOff(v) == v
Clamp(v) == IF v < 0 THEN 0 ELSE IF v > BOARD_SIZE - 1 THEN BOARD_SIZE - 1 ELSE v
Moved(rec, dx, dy) == [rec EXCEPT !.x = Clamp(rec.x + dx), !.y = Clamp(rec.y + dy)]

\* Does the program accept transaction op, signed by signer (the string
\* "primary" or a session key), on ledger l ("base" or "er")?
Writable(l) == IF l = "base" THEN baseOwner = "program" ELSE Delegated /\ erData # NoAccount
Record(l) == IF l = "base" THEN baseData ELSE erData
Accepts(op, signer, l) ==
    CASE op = "initialize" -> l = "base" /\ ~boardExists /\ signer = "primary"
      [] op = "joinGame" -> l = "base" /\ boardExists /\ baseOwner = "absent" /\ signer = "primary"
      [] op = "movePlayer" ->
            Writable(l) /\ (signer = "primary" \/ (signer # NoKey /\ signer = Record(l).sessionKey))
      [] op = "delegatePlayer" -> l = "base" /\ baseOwner = "program" /\ signer = "primary"
      [] op = "undelegatePlayer" -> l = "er" /\ Writable("er") /\ signer = "primary"
      [] op = "commitPlayer" -> l = "er" /\ Writable("er") /\ signer = "primary"
      [] op = "registerSessionKey" -> Writable(l) /\ signer = "primary"
      [] op = "revokeSessionKey" -> Writable(l) /\ signer = "primary"
      [] op = "transfer" -> l = "base" /\ signer = "primary"
      [] OTHER -> FALSE

\* The listeners of the GameBoard are installed while an identity is
\* connected; a change of the account on a ledger is pushed to that ledger's
\* listener with the owner and data after the change.
Listening == publicKey # NoWallet
Notify(queue, owner, data) == IF Listening THEN Append(queue, [owner |-> owner, data |-> data]) ELSE queue
Room(queue) == ~Listening \/ Len(queue) < MaxPush

\* The effect of an accepted transaction on the two ledgers, with the
\* notifications it causes. arg is the session key (register), the deltas
\* (move) or unused.
ChainEffect(op, l, arg) ==
    CASE op = "initialize" ->
            /\ boardExists' = TRUE
            /\ UNCHANGED <<baseOwner, baseData, erData, basePush, erPush>>
      [] op = "joinGame" ->
            /\ Room(basePush)
            /\ baseOwner' = "program"
            /\ baseData' = [x |-> JoinX, y |-> JoinY, authority |-> "A", sessionKey |-> NoKey]
            /\ basePush' = Notify(basePush, baseOwner', baseData')
            /\ UNCHANGED <<erData, boardExists, erPush>>
      [] op \in {"movePlayer", "registerSessionKey", "revokeSessionKey"} ->
            LET old == Record(l)
                new == CASE op = "movePlayer" -> Moved(old, arg[1], arg[2])
                         [] op = "registerSessionKey" -> [old EXCEPT !.sessionKey = arg]
                         [] OTHER -> [old EXCEPT !.sessionKey = NoKey]
            IN  IF l = "base"
                THEN /\ Room(basePush)
                     /\ baseData' = new
                     /\ basePush' = Notify(basePush, baseOwner, new)
                     /\ UNCHANGED <<baseOwner, erData, boardExists, erPush>>
                ELSE /\ Room(erPush)
                     /\ erData' = new
                     /\ erPush' = Notify(erPush, "program", new)
                     /\ UNCHANGED <<baseOwner, baseData, boardExists, basePush>>
      [] op = "delegatePlayer" ->
            /\ Room(basePush)
            /\ baseOwner' = "delegation"
            /\ erData' = baseData
            /\ basePush' = Notify(basePush, "delegation", baseData)
            /\ UNCHANGED <<baseData, boardExists, erPush>>
      [] op = "undelegatePlayer" ->
            /\ Room(basePush)
            /\ baseOwner' = "program"
            /\ baseData' = [erData EXCEPT !.sessionKey = NoKey]
            /\ erData' = NoAccount
            /\ basePush' = Notify(basePush, "program", baseData')
            /\ UNCHANGED <<boardExists, erPush>>
      [] op = "commitPlayer" ->
            /\ Room(basePush)
            /\ baseData' = erData
            /\ basePush' = Notify(basePush, baseOwner, erData)
            /\ UNCHANGED <<baseOwner, erData, boardExists, erPush>>
      [] OTHER -> UNCHANGED <<ledgerVars, basePush, erPush>>

\* A transaction handed to a ledger.
\* A program instruction sent through an AnchorProvider: the provider's
\* wallet signs and pays the fee; nothing is transferred. arg is set for the
\* moves of the program's test client only.
Tx(op, signer, l) ==
    [op |-> op, signer |-> signer, ledger |-> l, live |-> Delegated,
     from |-> "none", to |-> "none", lamports |-> 0, feePayer |-> signer, arg |-> <<0, 0>>]
NoTx == [op |-> "none", signer |-> "none", ledger |-> "none", live |-> FALSE,
         from |-> "none", to |-> "none", lamports |-> 0, feePayer |-> "none", arg |-> <<0, 0>>]

\* ------------------------------------------------------ process records
\* fetchPlayerData: pc is the await the call is suspended at.
\*   "info"    connection.getAccountInfo(playerPda) on the primary ledger
\*   "base"    baseProgram.account.player.fetch
\*   "airdrop" erConnection.requestAirdrop (lazy-load probe)
\*   "er"      erProgram.account.player.fetch
NoFetch == [pc |-> "idle", delegated |-> FALSE, airdropOk |-> FALSE]
NewFetch == [pc |-> "info", delegated |-> FALSE, airdropOk |-> FALSE]

\* A GameBoard command (initializeBoard, joinGame, movePlayer, delegatePlayer,
\* undelegatePlayer, commitPlayer): pc is "rpc" (transaction in flight),
\* "fetch" (awaiting its fetchPlayerData, whose state is f).
NoGcmd == [op |-> "none", pc |-> "idle", signer |-> "none", ledger |-> "none",
           arg |-> <<0, 0>>, f |-> NoFetch, closure |-> FALSE]

\* A lifecycle command of the hook (createSessionKey, registerSessionKey,
\* fundSessionKeyWallet, revokeSessionKey): pc is
\*   "sign"    deriveSessionKey waits for the primary signer
\*   "status"  getCurrentDelegationStatus waits for the primary ledger
\*   "rpc"     the transaction is with the signer / the ledger
\* inner marks a registerSessionKey that is inside its createSessionKey call.
\* delegated is registerSessionKey's local currentlyDelegated; pre is the
\* hook's state when the command was called.
NoPre == [isRegistered |-> FALSE, sessionKey |-> NoKey, sessionWallet |-> NoKey,
          cache |-> NoKey]
NoCmd == [op |-> "none", pc |-> "idle", id |-> "none", key |-> NoKey, ledger |-> "none",
          inner |-> FALSE, delegated |-> FALSE, pre |-> NoPre]

\* checkRegistration: "info" awaits getAccountInfo, "fetch" the player fetch
\* on the connection chosen from it.
NoRegCheck == [pc |-> "idle", delegated |-> FALSE]

\* The ledger states a session may start from: not joined (board there or
\* not), joined, joined and delegated.
Joined == [x |-> JoinX, y |-> JoinY, authority |-> "A", sessionKey |-> NoKey]
InitLedgers ==
    {[owner |-> "absent", base |-> NoAccount, er |-> NoAccount, board |-> b] : b \in BOOLEAN}
    \cup {[owner |-> "program", base |-> Joined, er |-> NoAccount, board |-> TRUE],
          [owner |-> "delegation", base |-> Joined, er |-> Joined, board |-> TRUE],
          [owner |-> "delegation", base |-> Joined,
           er |-> [Joined EXCEPT !.sessionKey = DerivedKey("A")], board |-> TRUE]}

InitStateFor(who) ==
    /\ publicKey = who
    /\ \E l \in InitLedgers :
          /\ baseOwner = l.owner /\ baseData = l.base /\ erData = l.er
          /\ boardExists = l.board
    /\ basePlayer = NoPlayer /\ erPlayer = NoPlayer /\ isDelegated = FALSE
    /\ loading = FALSE /\ boardInitialized = FALSE
    /\ gcmd = NoGcmd
    /\ fetches = [i \in 1..MaxFetches |-> NoFetch]
    /\ boardCheck = TRUE
    /\ basePush = <<>> /\ erPush = <<>>
    /\ sessionKey = NoKey /\ sessionWallet = NoKey /\ isRegistered = FALSE
    /\ sessionLoading = FALSE
    /\ cache \in {NoKey, Corrupt, DerivedKey("A")}
    /\ restore = "idle"
    /\ regCheck = NoRegCheck
    /\ cmds = [i \in 1..MaxCmds |-> NoCmd]
    /\ lastTx = NoTx
    /\ last = "init"
    /\ ops = 0
InitState == InitStateFor(NoWallet)

\* ------------------------------------------------ lib/sessionKey.ts
\* The session-key library on its own: derivation from a wallet signature
\* and the localStorage cache, one entry per wallet identity.
KeyIds == {"A", "B"}
Origins == {"o1", "o2"}

\* SESSION_KEY_MESSAGE: the fixed text, bound to the page's origin.
MessageText(origin) == [text |-> "session-key", origin |-> origin]

\* The blockhash of the moment, different at every run.
RecentBlockhash(id, origin, run) == [canon |-> FALSE, id |-> "", origin |-> "", nonce |-> run]

\* The fallback path's blockhash: sha256(wallet public key ++ message), the
\* same for every run.  The run number is not used.
CanonicalBlockhash(id, origin, run) == [canon |-> TRUE, id |-> id, origin |-> origin, nonce |-> 0]
\* The blockhash the signMessage path signs over: none.
NoBlockhash == [canon |-> FALSE, id |-> "", origin |-> "", nonce |-> 0]

\* What the wallet is asked to sign: the message bytes, or the memo
\* transaction (memo data, canonical blockhash, fee payer = the wallet).
SignedPayload(id, env, run) ==
    IF env.hasSignMessage
    THEN [kind |-> "message", msg |-> MessageText(env.origin), feePayer |-> "",
          blockhash |-> NoBlockhash]
    ELSE [kind |-> "transaction", msg |-> MessageText(env.origin), feePayer |-> id,
          blockhash |-> CanonicalBlockhash(id, env.origin, run)]

\* A signer that returns the same signature for the same payload.
Sign(id, payload) == [by |-> id, over |-> payload]

Bit(b) == IF b THEN 1 ELSE 0
\* sha256(signature ++ message).slice(0, 32): injective on the signatures
\* and messages of the model.
SeedOf(sig, msg) ==
    <<Bit(sig.by = "B"), Bit(msg.origin = "o2"), Bit(sig.over.kind = "transaction"),
      sig.over.blockhash.nonce % 2, sig.over.blockhash.nonce \div 2>>

\* The public half of a secret key, as Ed25519 derives it from the seed.
PubOf(seed) == [i \in DOMAIN seed |-> (seed[i] + 1) % 256]
NoKeypair == [secretKey |-> <<>>, publicKey |-> <<>>]
\* Keypair.fromSeed
FromSeed(seed) == [secretKey |-> seed \o PubOf(seed), publicKey |-> PubOf(seed)]

\* deriveSessionKey's result when the wallet signs.
DeriveResult(id, env, run) ==
    FromSeed(SeedOf(Sign(id, SignedPayload(id, env, run)), MessageText(env.origin)))

\* A secret key is a seed followed by its public half.
AnySeed == SeedOf(Sign("A", SignedPayload("A", [hasSignMessage |-> TRUE, origin |-> "o1"], 0)),
                  MessageText("o1"))
SecretKeyLen == 2 * Len(AnySeed)

\* localStorage entries.
NoEntry == [present |-> FALSE, kind |-> "none", nums |-> <<>>]
EmptyEntry == [present |-> TRUE, kind |-> "empty", nums |-> <<>>]
GarbageEntry == [present |-> TRUE, kind |-> "garbage", nums |-> <<>>]
ShortEntry == [present |-> TRUE, kind |-> "array", nums |-> <<1, 2>>]
MismatchEntry == [present |-> TRUE, kind |-> "array", nums |-> [i \in 1..SecretKeyLen |-> 0]]
\* JSON.stringify of the public key instead of the secret key.
SerializePublic(kp) == [present |-> TRUE, kind |-> "array", nums |-> kp.publicKey]
\* JSON.stringify(Array.from(sessionKey.secretKey))
Serialize(kp) == [present |-> TRUE, kind |-> "array", nums |-> kp.secretKey]

\* Uint8Array.from(JSON.parse(cached)) then Keypair.fromSecretKey, which
\* checks the length and that the public half matches the seed.
Deserialize(e) ==
    IF e.kind # "array" THEN [ok |-> FALSE, kp |-> NoKeypair]
    ELSE LET bytes == [i \in DOMAIN e.nums |-> e.nums[i] % 256]
             half == Len(bytes) \div 2
             seed == SubSeq(bytes, 1, half)
             pub == SubSeq(bytes, half + 1, Len(bytes))
         IN  IF Len(bytes) = SecretKeyLen
                /\ pub = PubOf(seed)
             THEN [ok |-> TRUE, kp |-> [secretKey |-> bytes, publicKey |-> pub]]
             ELSE [ok |-> FALSE, kp |-> NoKeypair]

\* if (cached): null and the empty string are falsy.
CachedIgnored(e) == FALSE
CachedTruthy(e) == e.present /\ e.kind # "empty"
\* The cache lookup of getOrCreateSessionKey: the try block's errors are
\* caught and logged.
LoadOutcomeUncaught(e) ==
    IF ~CachedTruthy(e) THEN "none"
    ELSE IF Deserialize(e).ok THEN "hit" ELSE "raise"
LoadOutcome(e) ==
    IF ~CachedTruthy(e) THEN "none"
    ELSE IF Deserialize(e).ok THEN "hit" ELSE "caught"

\* localStorage.getItem(cacheKey) !== null
HasSessionKey(e) == e.present

KeyOut(op, id, ok, kp, prompted, has, lookup) ==
    [op |-> op, id |-> id, ok |-> ok, kp |-> kp, prompted |-> prompted, has |-> has,
     lookup |-> lookup]

\* The library untouched: the other specifications leave it alone.
NoKeyLib ==
    /\ keyEnv = [hasSignMessage |-> TRUE, origin |-> "o1"]
    /\ storage = [id \in KeyIds |-> NoEntry]
    /\ keyOut = KeyOut("none", "", TRUE, NoKeypair, FALSE, FALSE, "none")
    /\ deriveRuns = [id \in KeyIds |-> 0]
    /\ derivedKeys = [id \in KeyIds |-> {}]

\* ------------------------------------------- GameBoard: fetchAllPlayers
\* The identities that own player accounts and the positions they are at.
Owners == {"A", "B"}
Spots == {<<JoinX, JoinY>>, <<0, 0>>}
PlayerAccount(who, at) == [x |-> at[1], y |-> at[2], authority |-> who, sessionKey |-> NoKey]

\* program.account.player.all() on one ledger: one account per owner, in
\* any order.
Listings ==
    {<<>>}
    \cup {<<PlayerAccount(o, at)>> : o \in Owners, at \in Spots}
    \cup {<<PlayerAccount(l[1], l[2]), PlayerAccount(l[3], l[4])>> :
             l \in {m \in Owners \X Spots \X Owners \X Spots : m[1] # m[3]}}
\* The two listings with, for each primary entry, what getAccountInfo says
\* of its owner (delegated or not).
LedgerListings ==
    {[base |-> b, delegated |-> d, er |-> e] :
        b \in Listings, e \in Listings, d \in [1..Cardinality(Owners) -> BOOLEAN]}

\* Map.get
MapGet(m, key) ==
    IF \E i \in DOMAIN m : m[i].authority = key
    THEN m[CHOOSE i \in DOMAIN m : m[i].authority = key]
    ELSE NoPlayer
\* Map.set: an existing key keeps its place, a new key goes last.
MapSet(m, key, value) ==
    IF \E i \in DOMAIN m : m[i].authority = key
    THEN [i \in DOMAIN m |-> IF m[i].authority = key THEN value ELSE m[i]]
    ELSE Append(m, value)

\* A rollup entry that replaces the position whatever the primary flag.
ErOverridesAlways(known) == TRUE
\* basePlayer.isDelegated: the rollup position replaces the primary one.
ErOverrides(known) == known.isDelegated

\* The loop over basePlayers, from entry i on.
RECURSIVE ProcessBase(_, _, _, _)
ProcessBase(m, basePlayers, delegated, i) ==
    IF i > Len(basePlayers) THEN m
    ELSE ProcessBase(MapSet(m, basePlayers[i].authority,
                            PlayerData(basePlayers[i], delegated[i])),
                     basePlayers, delegated, i + 1)

\* The loop over erPlayers, from entry i on.
RECURSIVE ProcessEr(_, _, _)
ProcessEr(m, erPlayers, i) ==
    IF i > Len(erPlayers) THEN m
    ELSE LET acc == erPlayers[i]
             known == MapGet(m, acc.authority)          \* the code's basePlayer
             next == IF known # NoPlayer /\ ErOverrides(known)
                     THEN MapSet(m, acc.authority,
                                 [known EXCEPT !.x = acc.x, !.y = acc.y])
                     ELSE IF known = NoPlayer
                          THEN MapSet(m, acc.authority, PlayerData(acc, TRUE))
                          ELSE m
         IN  ProcessEr(next, erPlayers, i + 1)

\* Array.from(playersMap.values()) for the two listings.
MergePlayers(basePlayers, delegated, erPlayers) ==
    ProcessEr(ProcessBase(<<>>, basePlayers, delegated, 1), erPlayers, 1)

\* Nothing listed, nothing shown.
NoListing ==
    /\ ledgerPlayers = [base |-> <<>>, delegated |-> [i \in 1..Cardinality(Owners) |-> FALSE], er |-> <<>>]
    /\ allPlayers = <<>>

\* ------------------------------------------------ SessionKeySetupDialog
\* The closure of a running handleNext: the step and the completed steps of
\* the render its click belongs to.
NoCall == [step |-> 0, completedSteps |-> {}]
\* The dialog as mounted: closed, at step 0, nothing completed, no error, no
\* key shown, no handleNext running (awaits is the command slot a running
\* handleNext waits for), no close timer armed.
NoDialog == [open |-> FALSE, currentStep |-> 0, completedSteps |-> {}, loading |-> FALSE,
             error |-> FALSE, sessionKeyPubkey |-> NoKey, awaits |-> 0, call |-> NoCall,
             timer |-> FALSE]
DialogAtMount == dialog = NoDialog

\* What a hook command returns to its caller, by the label of its last step:
\* createSessionKey the key or null, the others true or false.
ReturnedBy(lbl, key) ==
    IF lbl \in {"createOk", "createHit"} THEN key
    ELSE IF lbl = "createFail" THEN NoKey
    ELSE IF lbl \in {"registerOk", "fundOk"} THEN "true"
    ELSE "false"

\* A check that lets every result through.
FalsyNever(result) == FALSE
\* if (!key) / if (!success)
Falsy(result) == result \in {NoKey, "false"}

\* handleNext after its await: a falsy result sets the error and returns at
\* the step it was at; otherwise the step is marked completed and the next
\* one becomes current (after the funding step a timer is armed that will
\* close the dialog). d.call is the closure handleNext runs in.
HandleNextReturns(d, result) ==
    LET e == [d EXCEPT !.awaits = 0, !.loading = FALSE]
        done == d.call.completedSteps \cup {d.call.step}
    IN  IF Falsy(result) THEN [e EXCEPT !.error = TRUE]
        ELSE IF d.call.step = 0
             THEN [e EXCEPT !.sessionKeyPubkey = result, !.completedSteps = done,
                            !.currentStep = 1]
        ELSE IF d.call.step = 1
             THEN [e EXCEPT !.completedSteps = done, !.currentStep = 2]
        ELSE [e EXCEPT !.completedSteps = done, !.timer = TRUE]

\* handleClose: back to step 0 and closed.
HandleCloseOf(d) ==
    [d EXCEPT !.currentStep = 0, !.completedSteps = {}, !.error = FALSE,
              !.sessionKeyPubkey = NoKey, !.open = FALSE]

\* GameBoard renders the dialog only while connected: a disconnect unmounts
\* it, and its state starts afresh at the next mount; showSessionSetupDialog
\* is GameBoard's and stays. (A timer or a handleNext of the unmounted
\* instance can only call onOpenChange(false) any more.)
Unmounted(d) == [NoDialog EXCEPT !.open = d.open]

\* No transaction has been handed to a SessionWallet.
NoSigning == txOrig = <<>> /\ txs = <<>> /\ signPc = "idle"

\* A null subscription handle (useRef<number | null>(null)).
NoSub == -1
Ledgers == {"base", "er"}
\* GameBoard mounted, nothing subscribed yet; first is the handle each
\* connection gives out first.
SubsAtMount(first) ==
    /\ subId = [l \in Ledgers |-> NoSub]
    /\ listeners = [l \in Ledgers |-> {}]
    /\ nextId = [l \in Ledgers |-> first]
    /\ subCalls = <<>>
    /\ mounted = TRUE

Init ==
    InitState /\ NoSigning /\ SubsAtMount(0) /\ NoKeyLib /\ NoListing /\ DialogAtMount
    /\ budget = [ops |-> MaxOps, cmds |-> MaxFullCmds]
InitBoard ==
    InitState /\ NoSigning /\ SubsAtMount(0) /\ NoKeyLib /\ NoListing /\ DialogAtMount
    /\ budget = [ops |-> MaxBoardOps, cmds |-> 0]
InitSession ==
    InitState /\ NoSigning /\ SubsAtMount(0) /\ NoKeyLib /\ NoListing /\ DialogAtMount
    /\ budget = [ops |-> MaxSessionOps, cmds |-> MaxCmds]

\* ------------------------------------------------------------ GameBoard
\* A reconciliation that falls back to the primary snapshot when no rollup
\* snapshot is there (not what GameBoard computes).
PlayerOrPrimary == IF isDelegated /\ erPlayer # NoPlayer THEN erPlayer ELSE basePlayer
\* Computed player: use ER player if delegated, otherwise base player.
player == IF isDelegated THEN erPlayer ELSE basePlayer

\* One resumption of a fetchPlayerData call in state f: the possible
\* results, each with the call's state afterwards (nf, NoFetch once the call
\* has returned), the snapshots and the flag it leaves, and a label.
FetchResult(nf, lbl, bp, ep, del) == [nf |-> nf, lbl |-> lbl, bp |-> bp, ep |-> ep, del |-> del]

\* A fetch that treats the absent account as delegated and goes on to the
\* rollup (not what fetchPlayerData does).
FetchAbsentGoesOn(f) ==
    FetchResult([f EXCEPT !.pc = "airdrop", !.delegated = TRUE], "fetchAbsent",
                NoPlayer, erPlayer, TRUE)
\* if (!accountInfo): both snapshots cleared, not delegated, return.
FetchAbsent(f) == FetchResult(NoFetch, "fetchAbsent", NoPlayer, NoPlayer, FALSE)
\* The outer catch-block.
FetchThrow(f) == FetchResult(NoFetch, "fetchThrow", NoPlayer, NoPlayer, FALSE)
\* const delegated = accountInfo.owner.toString() !== programId.
OwnerDelegated(owner) == owner # "program"
FetchInfo(f) ==
    FetchResult([f EXCEPT !.pc = "base", !.delegated = OwnerDelegated(baseOwner)],
                "fetchInfo", basePlayer, erPlayer, OwnerDelegated(baseOwner))
\* After the base fetch (bp is the base snapshot it leaves):
\* if (delegated && erConnection.current) go on to the rollup, else
\* setErPlayer(null).
FetchAfterBase(f, bp) ==
    IF f.delegated
    THEN FetchResult([f EXCEPT !.pc = "airdrop"], "fetchBase", bp, erPlayer, isDelegated)
    ELSE FetchResult(NoFetch, "fetchBaseOnly", bp, NoPlayer, isDelegated)
\* A fetch that gives up when requestAirdrop fails (not what fetchPlayerData
\* does).
FetchAirdropFatal(f, ok) ==
    IF ok
    THEN FetchResult([f EXCEPT !.pc = "er", !.airdropOk = ok], "fetchAirdrop",
                     basePlayer, erPlayer, isDelegated)
    ELSE FetchResult(NoFetch, "fetchAirdrop", basePlayer, erPlayer, isDelegated)
\* After requestAirdrop: its failure is swallowed, the rollup read follows.
FetchAfterAirdrop(f, ok) ==
    FetchResult([f EXCEPT !.pc = "er", !.airdropOk = ok], "fetchAirdrop",
                basePlayer, erPlayer, isDelegated)
\* After the rollup fetch (ep is the rollup snapshot it leaves).
FetchAfterEr(f, ep) ==
    FetchResult(NoFetch, IF f.airdropOk THEN "fetchEr" ELSE "fetchErCold",
                basePlayer, ep, isDelegated)

\* The resumptions after a read that the ledger answered: the account as it
\* is now (a record that is not there cannot be fetched, the inner catch
\* leaves the snapshot as it is).
FetchReads(f) ==
    CASE f.pc = "info" -> IF baseOwner = "absent" THEN {FetchAbsent(f)} ELSE {FetchInfo(f)}
      [] f.pc = "base" ->
            IF baseData # NoAccount THEN {FetchAfterBase(f, PlayerData(baseData, FALSE))}
            ELSE {FetchAfterBase(f, basePlayer)}
      [] f.pc = "airdrop" -> {FetchAfterAirdrop(f, ok) : ok \in BOOLEAN}
      [] f.pc = "er" ->
            IF erData # NoAccount THEN {FetchAfterEr(f, PlayerData(erData, TRUE))}
            ELSE {FetchAfterEr(f, erPlayer)}
      [] OTHER -> {}
\* The resumptions after a read that failed (the connection threw).
FetchFailures(f) ==
    CASE f.pc = "info" -> {FetchThrow(f)}
      [] f.pc = "base" -> {FetchAfterBase(f, basePlayer)}
      [] f.pc = "er" -> {FetchAfterEr(f, erPlayer)}
      [] OTHER -> {}
FetchResults(f) == FetchReads(f) \cup FetchFailures(f)

\* The state updates of a fetchPlayerData resumption with result r.
FetchSets(r) == basePlayer' = r.bp /\ erPlayer' = r.ep /\ isDelegated' = r.del


\* getOrCreateSessionKey up to its first real suspension: a cache entry that
\* deserializes is returned at once; otherwise the key must be derived.
CacheHit == cache # NoKey /\ cache # Corrupt

\* fetchPlayerData is called from the effect. A call beyond MaxFetches is
\* one whose first read never returns.
StartFetch ==
    IF \E i \in 1..MaxFetches : fetches[i] = NoFetch
    THEN [fetches EXCEPT ![CHOOSE i \in 1..MaxFetches : fetches[i] = NoFetch] = NewFetch]
    ELSE fetches

\* The wallet adapter connects an identity. The effects run: GameBoard
\* fetches and subscribes; the hook restores the cached key and checks the
\* registration.
Connect ==
    /\ publicKey = NoWallet /\ ops < budget.ops
    /\ \E id \in Identities : publicKey' = id
    /\ fetches' = StartFetch
    /\ regCheck.pc = "idle" /\ restore = "idle"
    /\ regCheck' = [pc |-> "info", delegated |-> FALSE]
    /\ IF cache = NoKey                         \* hasSessionKey(publicKey)
       THEN UNCHANGED <<sessionKey, sessionWallet, restore>>
       ELSE IF CacheHit
            THEN sessionKey' = cache /\ sessionWallet' = cache /\ UNCHANGED restore
            ELSE restore' = "sign" /\ UNCHANGED <<sessionKey, sessionWallet>>
    /\ last' = "connect" /\ ops' = ops + 1 /\ UNCHANGED auxVars
    /\ UNCHANGED <<ledgerVars, viewVars, loading, boardInitialized, gcmd, boardCheck,
                   basePush, erPush, isRegistered, sessionLoading, cache, cmds, lastTx>>

\* The wallet disconnects: GameBoard clears its snapshots and unsubscribes,
\* the hook drops the in-memory key and the registration flag.
Disconnect ==
    /\ publicKey # NoWallet /\ ops < budget.ops
    /\ publicKey' = NoWallet
    /\ basePlayer' = NoPlayer /\ erPlayer' = NoPlayer /\ isDelegated' = FALSE
    /\ basePush' = <<>> /\ erPush' = <<>>
    /\ sessionKey' = NoKey /\ sessionWallet' = NoKey /\ isRegistered' = FALSE
    /\ last' = "disconnect" /\ ops' = ops + 1 /\ UNCHANGED restVars
    /\ dialog' = Unmounted(dialog)
    /\ UNCHANGED <<ledgerVars, loading, boardInitialized, gcmd, fetches, boardCheck,
                   sessionLoading, cache, cmds, restore, regCheck, lastTx>>

\* An effect-started fetchPlayerData resumes.
FetchResume ==
    \E i \in 1..MaxFetches :
        \E r \in FetchResults(fetches[i]) :
            /\ FetchSets(r)
            /\ fetches' = [fetches EXCEPT ![i] = r.nf]
            /\ last' = r.lbl
            /\ UNCHANGED <<publicKey, ledgerVars, loading, boardInitialized, gcmd, boardCheck,
                           basePush, erPush, hookVars, cmds, restore, regCheck, lastTx, ops, auxVars>>

\* A decode that accepts whatever it is given.
DecodesAlways(data) == TRUE
\* coder.accounts.decode('player', data) throws for data that is not a
\* player record (an account without data among them).
Decodes(data) == data # NoAccount

\* An effect-started fetchPlayerData resumes with the answer of a read that
\* went through.
FetchDelivered ==
    \E i \in 1..MaxFetches :
        \E r \in FetchReads(fetches[i]) :
            /\ FetchSets(r)
            /\ fetches' = [fetches EXCEPT ![i] = r.nf]
            /\ last' = r.lbl
            /\ UNCHANGED <<publicKey, ledgerVars, loading, boardInitialized, gcmd, boardCheck,
                           basePush, erPush, hookVars, cmds, restore, regCheck, lastTx, ops, auxVars>>

\* handleBaseChange: a notification of the primary ledger is delivered.
HandleBaseChange ==
    /\ basePush # <<>>
    /\ LET n == Head(basePush) IN
          IF Decodes(n.data)
          THEN /\ basePlayer' = PlayerData(n.data, FALSE)
               /\ isDelegated' = (n.owner # "program")
          ELSE UNCHANGED <<basePlayer, isDelegated>>    \* decode throws: logged
    /\ basePush' = Tail(basePush)
    /\ last' = "basePush"
    /\ UNCHANGED <<publicKey, ledgerVars, erPlayer, loading, boardInitialized, gcmd, fetches,
                   boardCheck, erPush, hookVars, cmds, restore, regCheck, lastTx, ops, auxVars>>

\* handleErChange: a notification of the rollup is delivered.
HandleErChange ==
    /\ erPush # <<>>
    /\ IF Decodes(Head(erPush).data)
       THEN erPlayer' = PlayerData(Head(erPush).data, TRUE)
       ELSE UNCHANGED erPlayer
    /\ erPush' = Tail(erPush)
    /\ last' = "erPush"
    /\ UNCHANGED <<publicKey, ledgerVars, basePlayer, isDelegated, loading, boardInitialized,
                   gcmd, fetches, boardCheck, basePush, hookVars, cmds, restore, regCheck,
                   lastTx, ops, auxVars>>

\* checkBoardInitialized of the mount effect resumes: the read succeeds or
\* throws (logged, state unchanged).
CheckBoardResume ==
    /\ boardCheck
    /\ boardCheck' = FALSE
    /\ \/ boardInitialized' = boardExists
       \/ UNCHANGED boardInitialized
    /\ last' = "checkBoard"
    /\ UNCHANGED <<publicKey, ledgerVars, viewVars, loading, gcmd, fetches, basePush, erPush,
                   hookVars, cmds, restore, regCheck, lastTx, ops, auxVars>>

\* -------------------------------------------------------- useSessionKey
\* restoreSessionKey found an entry that does not deserialize and waits for
\* the signer inside getOrCreateSessionKey / deriveSessionKey.
RestoreResume ==
    /\ restore = "sign"
    /\ restore' = "idle"
    /\ \/ /\ cache' = DerivedKey("A")           \* signed: derived, cached, held
          /\ sessionKey' = DerivedKey("A") /\ sessionWallet' = DerivedKey("A")
          /\ last' = "restoreDerived"
       \/ /\ UNCHANGED <<cache, sessionKey, sessionWallet>>   \* rejected: logged
          /\ last' = "restoreFail"
    /\ UNCHANGED <<publicKey, ledgerVars, boardVars, basePush, erPush, isRegistered,
                   sessionLoading, cmds, regCheck, lastTx, ops, auxVars>>

\* checkRegistration resumes.
RegCheckResume ==
    /\ \/ /\ regCheck.pc = "info"
          /\ \/ /\ regCheck' = [pc |-> "fetch", delegated |-> (baseOwner # "program")]
                /\ UNCHANGED isRegistered
                /\ last' = "regCheckInfo"
             \/ /\ regCheck' = NoRegCheck       \* getAccountInfo throws
                /\ isRegistered' = FALSE
                /\ last' = "regCheckFail"
       \/ /\ regCheck.pc = "fetch"
          /\ regCheck' = NoRegCheck
          /\ LET rec == IF regCheck.delegated THEN erData ELSE baseData IN
             \/ /\ rec # NoAccount
                /\ isRegistered' = (rec.sessionKey # NoKey)
                /\ last' = "regCheckDone"
             \/ /\ isRegistered' = FALSE        \* the fetch throws
                /\ last' = "regCheckFail"
    /\ UNCHANGED <<publicKey, ledgerVars, boardVars, basePush, erPush, sessionKey,
                   sessionWallet, sessionLoading, cache, cmds, restore, lastTx, ops, auxVars>>

\* A finally-block that leaves the in-flight flag as it finds it.
FinallySkipped(l) == l
\* finally { setLoading(false); } of the four lifecycle commands, l the
\* flag as the command's return finds it.
Finally(l) == FALSE

\* The lowest free command slot.
FreeSlot(i) == i <= budget.cmds /\ cmds[i] = NoCmd /\ \A j \in 1..(i - 1) : cmds[j] # NoCmd

\* getCurrentDelegationStatus: the live read of the owner on the primary
\* ledger (false when the account is absent or the read throws).
StatusLedgers == IF Delegated THEN {"er", "base"} ELSE {"base"}

\* The hook's state and the cache entry, as a caller sees them.
HookState == [isRegistered |-> isRegistered, sessionKey |-> sessionKey,
              sessionWallet |-> sessionWallet, cache |-> cache]

\* A catch block that throws away whatever key the hook held.
AfterCreateCatchCleared(h) ==
    [h EXCEPT !.cache = NoKey, !.sessionKey = NoKey, !.sessionWallet = NoKey]
\* createSessionKey's catch block: it logs, shows the error and returns
\* null; the hook's state h is not touched.
AfterCreateCatch(h) == h

\* The command in slot i has taken a step: when it has returned and a
\* handleNext of the dialog was awaiting it, handleNext goes on with the
\* result in the same turn of the event loop.
DialogObserves(i) ==
    dialog' = IF dialog.awaits = i /\ cmds'[i] = NoCmd
              THEN HandleNextReturns(dialog, ReturnedBy(last', sessionKey'))
              ELSE dialog

\* createSessionKey is called and runs in command slot i.
CreateSessionKeyIn(i) ==
        /\ FreeSlot(i) /\ publicKey # NoWallet /\ ops < budget.ops
        /\ IF CacheHit
           THEN /\ sessionKey' = cache /\ sessionWallet' = cache
                /\ sessionLoading' = Finally(TRUE)
                /\ last' = "createHit"
                /\ UNCHANGED cmds
           ELSE /\ sessionLoading' = TRUE
                /\ cmds' = [cmds EXCEPT ![i] = [NoCmd EXCEPT !.op = "create", !.pc = "sign",
                                                            !.id = publicKey]]
                /\ last' = "createStart"
                /\ UNCHANGED <<sessionKey, sessionWallet>>
        /\ ops' = ops + 1 /\ UNCHANGED restVars
        /\ UNCHANGED <<publicKey, ledgerVars, boardVars, basePush, erPush, isRegistered, cache,
                       restore, regCheck, lastTx>>

\* createSessionKey is called from the page.
CreateSessionKey == \E i \in 1..MaxCmds : CreateSessionKeyIn(i) /\ UNCHANGED dialog

\* The signer answers the derivation request of a createSessionKey.
CreateResume ==
    \E i \in 1..MaxCmds :
        /\ cmds[i].op = "create" /\ cmds[i].pc = "sign"
        /\ cmds' = [cmds EXCEPT ![i] = NoCmd]
        /\ sessionLoading' = Finally(sessionLoading)
        /\ \/ /\ cache' = DerivedKey(cmds[i].id)
              /\ sessionKey' = DerivedKey(cmds[i].id)
              /\ sessionWallet' = DerivedKey(cmds[i].id)
              /\ last' = "createOk"
           \/ /\ LET h == AfterCreateCatch(HookState) IN
                    /\ cache' = h.cache
                    /\ sessionKey' = h.sessionKey /\ sessionWallet' = h.sessionWallet
              /\ last' = "createFail"
        /\ UNCHANGED <<publicKey, ledgerVars, boardVars, basePush, erPush, isRegistered,
                       restore, regCheck, lastTx, ops, restVars>>
        /\ DialogObserves(i)

\* A clearSessionKey that leaves the entry in place (not what the library
\* does).
ClearSessionKeyKeep(c) == c
\* clearSessionKey(walletPubkey): the cache entry after the removal.
ClearSessionKey(c) == NoKey

\* The wallet the hook hands to AnchorProvider / fundSessionKey for its own
\* transactions: the connected primary wallet.
HookWallet == "primary"

\* registerSessionKey is called. Without a key in memory it first calls
\* createSessionKey, whose finally-block clears the loading flag.
RegisterSessionKeyIn(i) ==
        /\ FreeSlot(i) /\ publicKey # NoWallet /\ ops < budget.ops
        /\ LET c == [NoCmd EXCEPT !.op = "register", !.id = publicKey, !.pre = HookState] IN
           IF sessionKey # NoKey
           THEN /\ cmds' = [cmds EXCEPT ![i] = [c EXCEPT !.pc = "status", !.key = sessionKey]]
                /\ sessionLoading' = TRUE
                /\ last' = "registerStart"
                /\ UNCHANGED <<sessionKey, sessionWallet>>
           ELSE IF CacheHit
                THEN /\ cmds' = [cmds EXCEPT ![i] = [c EXCEPT !.pc = "status", !.key = cache]]
                     /\ sessionKey' = cache /\ sessionWallet' = cache
                     /\ sessionLoading' = Finally(TRUE)
                     /\ last' = "registerStartHit"
                ELSE /\ cmds' = [cmds EXCEPT ![i] = [c EXCEPT !.pc = "sign", !.inner = TRUE]]
                     /\ sessionLoading' = TRUE
                     /\ last' = "registerStartSign"
                     /\ UNCHANGED <<sessionKey, sessionWallet>>
        /\ ops' = ops + 1 /\ UNCHANGED restVars
        /\ UNCHANGED <<publicKey, ledgerVars, boardVars, basePush, erPush, isRegistered, cache,
                       restore, regCheck, lastTx>>

\* registerSessionKey is called from outside the dialog.
RegisterSessionKey == \E i \in 1..MaxCmds : RegisterSessionKeyIn(i) /\ UNCHANGED dialog

\* The signer answers the derivation request of the createSessionKey inside
\* a registerSessionKey.
RegisterSignResume ==
    \E i \in 1..MaxCmds :
        /\ cmds[i].op = "register" /\ cmds[i].pc = "sign"
        /\ sessionLoading' = Finally(sessionLoading)
        /\ \/ /\ cache' = DerivedKey(cmds[i].id)
              /\ sessionKey' = DerivedKey(cmds[i].id)
              /\ sessionWallet' = DerivedKey(cmds[i].id)
              /\ cmds' = [cmds EXCEPT ![i] = [@ EXCEPT !.pc = "status", !.inner = FALSE,
                                                        !.key = DerivedKey(cmds[i].id)]]
              /\ last' = "registerSigned"
           \/ /\ LET h == AfterCreateCatch(HookState) IN
                    /\ cache' = h.cache
                    /\ sessionKey' = h.sessionKey /\ sessionWallet' = h.sessionWallet
              /\ cmds' = [cmds EXCEPT ![i] = NoCmd]             \* if (!key) return false
              /\ last' = "registerNoKey"
        /\ UNCHANGED <<publicKey, ledgerVars, boardVars, basePush, erPush, isRegistered,
                       restore, regCheck, lastTx, ops, restVars>>
        /\ DialogObserves(i)

\* What connection.getAccountInfo(playerPda) on the primary ledger can give
\* getCurrentDelegationStatus: the account's owner now, or an error.
StatusReads == {baseOwner, "error"}
\* getCurrentDelegationStatus: true when the account is there and its owner
\* is not the program; false when it is absent or the read throws.
GetCurrentDelegationStatus(read) == read \notin {"absent", "error", "program"}
\* A connection that is the primary ledger's whatever the status.
GetConnectionPrimary(delegated) == "base"
\* getConnectionForAccount(isDelegated)
GetConnectionForAccount(delegated) == IF delegated THEN "er" ELSE "base"

\* getCurrentDelegationStatus returns to registerSessionKey, which submits
\* the register instruction on the connection chosen from it.
RegisterStatusResume ==
    \E i \in 1..MaxCmds, read \in StatusReads :
        LET currentlyDelegated == GetCurrentDelegationStatus(read)
            l == GetConnectionForAccount(currentlyDelegated)
        IN  /\ cmds[i].op = "register" /\ cmds[i].pc = "status"
            /\ cmds' = [cmds EXCEPT ![i] = [@ EXCEPT !.pc = "rpc", !.ledger = l,
                                                      !.delegated = currentlyDelegated]]
            /\ lastTx' = Tx("registerSessionKey", HookWallet, l)
            /\ last' = "registerSubmit"
            /\ UNCHANGED <<publicKey, ledgerVars, boardVars, basePush, erPush, hookVars,
                           restore, regCheck, ops, auxVars>>

\* The register transaction succeeds or fails.
RegisterRpcResume ==
    \E i \in 1..MaxCmds :
        /\ cmds[i].op = "register" /\ cmds[i].pc = "rpc"
        /\ cmds' = [cmds EXCEPT ![i] = NoCmd]
        /\ sessionLoading' = Finally(sessionLoading)
        /\ \/ /\ Accepts("registerSessionKey", HookWallet, cmds[i].ledger)
              /\ ChainEffect("registerSessionKey", cmds[i].ledger, cmds[i].key)
              /\ isRegistered' = TRUE
              /\ last' = "registerOk"
           \/ /\ UNCHANGED <<ledgerVars, basePush, erPush, isRegistered>>
              /\ last' = "registerFail"
        /\ UNCHANGED <<publicKey, boardVars, sessionKey, sessionWallet, cache,
                       restore, regCheck, lastTx, ops, restVars>>
        /\ DialogObserves(i)

\* The register transaction ends in a timeout or expired error: it may or
\* may not have taken effect. registerSessionKey's catch-block treats it as
\* any other error: it reports the failure and returns false.
RegisterRpcTimeout ==
    \E i \in 1..MaxCmds :
        /\ cmds[i].op = "register" /\ cmds[i].pc = "rpc"
        /\ cmds' = [cmds EXCEPT ![i] = NoCmd]
        /\ sessionLoading' = Finally(sessionLoading)
        /\ \/ /\ Accepts("registerSessionKey", HookWallet, cmds[i].ledger)
              /\ ChainEffect("registerSessionKey", cmds[i].ledger, cmds[i].key)
           \/ UNCHANGED <<ledgerVars, basePush, erPush>>
        /\ last' = "registerTimeout"
        /\ UNCHANGED <<publicKey, boardVars, sessionKey, sessionWallet, isRegistered, cache,
                       restore, regCheck, lastTx, ops, restVars>>
        /\ DialogObserves(i)

\* fundSessionKey's default amount: 0.01 SOL.
DefaultLamports == 10000000
\* The connection of the account's present owner.
GetConnectionLive == IF Delegated THEN "er" ELSE "base"
\* getConnection(): the primary ledger.
GetConnection == "base"
\* fundSessionKey(wallet, sessionKeyPubkey, connection, lamports): a
\* SystemProgram.transfer from the wallet to the session key, the wallet as
\* fee payer and signer, sent on connection.
FundSessionKey(wallet, sessionKeyPubkey, connection, lamports) ==
    [op |-> "transfer", signer |-> wallet, ledger |-> connection, live |-> Delegated,
     from |-> wallet, to |-> sessionKeyPubkey, lamports |-> lamports, feePayer |-> wallet,
     arg |-> <<0, 0>>]

\* fundSessionKeyWallet is called: without a key it returns false at once,
\* otherwise fundSessionKey builds the transfer, has the wallet sign it and
\* sends it on the primary ledger.
FundSessionKeyWalletIn(i) ==
        /\ FreeSlot(i) /\ publicKey # NoWallet /\ ops < budget.ops
        /\ IF sessionKey = NoKey
           THEN /\ sessionLoading' = Finally(TRUE)
                /\ last' = "fundNoKey"
                /\ UNCHANGED <<cmds, lastTx>>
           ELSE /\ sessionLoading' = TRUE
                /\ cmds' = [cmds EXCEPT ![i] = [NoCmd EXCEPT !.op = "fund", !.pc = "rpc",
                                 !.id = publicKey, !.key = sessionKey, !.ledger = GetConnection]]
                /\ lastTx' = FundSessionKey(HookWallet, sessionKey, GetConnection,
                                            DefaultLamports)
                /\ last' = "fundStart"
        /\ ops' = ops + 1 /\ UNCHANGED restVars
        /\ UNCHANGED <<publicKey, ledgerVars, boardVars, basePush, erPush, sessionKey,
                       sessionWallet, isRegistered, cache, restore, regCheck>>

\* fundSessionKeyWallet is called from outside the dialog.
FundSessionKeyWallet == \E i \in 1..MaxCmds : FundSessionKeyWalletIn(i) /\ UNCHANGED dialog

\* The funding transfer succeeds or fails.
FundRpcResume ==
    \E i \in 1..MaxCmds :
        /\ cmds[i].op = "fund" /\ cmds[i].pc = "rpc"
        /\ cmds' = [cmds EXCEPT ![i] = NoCmd]
        /\ sessionLoading' = Finally(sessionLoading)
        /\ \/ last' = "fundOk"
           \/ last' = "fundFail"
        /\ UNCHANGED <<publicKey, ledgerVars, boardVars, basePush, erPush, sessionKey,
                       sessionWallet, isRegistered, cache, restore, regCheck, lastTx, ops,
                       restVars>>
        /\ DialogObserves(i)

\* revokeSessionKey is called.
RevokeSessionKey ==
    \E i \in 1..MaxCmds :
        /\ FreeSlot(i) /\ publicKey # NoWallet /\ ops < budget.ops
        /\ cmds' = [cmds EXCEPT ![i] = [NoCmd EXCEPT !.op = "revoke", !.pc = "status",
                                                    !.id = publicKey]]
        /\ sessionLoading' = TRUE
        /\ last' = "revokeStart"
        /\ ops' = ops + 1 /\ UNCHANGED auxVars
        /\ UNCHANGED <<publicKey, ledgerVars, boardVars, basePush, erPush, sessionKey,
                       sessionWallet, isRegistered, cache, restore, regCheck, lastTx>>

\* getCurrentDelegationStatus returns to revokeSessionKey, which submits the
\* revoke instruction on the connection chosen from it.
RevokeStatusResume ==
    \E i \in 1..MaxCmds, l \in StatusLedgers :
        /\ cmds[i].op = "revoke" /\ cmds[i].pc = "status"
        /\ cmds' = [cmds EXCEPT ![i] = [@ EXCEPT !.pc = "rpc", !.ledger = l]]
        /\ lastTx' = Tx("revokeSessionKey", HookWallet, l)
        /\ last' = "revokeSubmit"
        /\ UNCHANGED <<publicKey, ledgerVars, boardVars, basePush, erPush, hookVars,
                       restore, regCheck, ops, auxVars>>

\* A catch block that drops the local key as the success path does.
AfterRevokeCatchCleared(h) ==
    [h EXCEPT !.cache = NoKey, !.sessionKey = NoKey, !.sessionWallet = NoKey,
              !.isRegistered = FALSE]
\* revokeSessionKey's catch block: it logs, shows the error and returns
\* false; the hook's state h is not touched.
AfterRevokeCatch(h) == h

\* The revoke transaction succeeds (the local key is dropped) or fails (the
\* catch-block reports it and nothing is dropped).
RevokeRpcResume ==
    \E i \in 1..MaxCmds :
        /\ cmds[i].op = "revoke" /\ cmds[i].pc = "rpc"
        /\ cmds' = [cmds EXCEPT ![i] = NoCmd]
        /\ sessionLoading' = Finally(sessionLoading)
        /\ \/ /\ Accepts("revokeSessionKey", HookWallet, cmds[i].ledger)
              /\ ChainEffect("revokeSessionKey", cmds[i].ledger, NoKey)
              /\ cache' = ClearSessionKey(cache)
              /\ sessionKey' = NoKey /\ sessionWallet' = NoKey
              /\ isRegistered' = FALSE
              /\ last' = "revokeOk"
           \/ /\ UNCHANGED <<ledgerVars, basePush, erPush>>
              /\ LET h == AfterRevokeCatch(HookState) IN
                    /\ cache' = h.cache
                    /\ sessionKey' = h.sessionKey /\ sessionWallet' = h.sessionWallet
                    /\ isRegistered' = h.isRegistered
              /\ last' = "revokeFail"
        /\ UNCHANGED <<publicKey, boardVars, restore, regCheck, lastTx, ops, auxVars>>

\* The revoke transaction ends in a timeout or expired error: it may or may
\* not have taken effect. revokeSessionKey's catch-block treats it as any
\* other error: it reports the failure and returns false.
RevokeRpcTimeout ==
    \E i \in 1..MaxCmds :
        /\ cmds[i].op = "revoke" /\ cmds[i].pc = "rpc"
        /\ cmds' = [cmds EXCEPT ![i] = NoCmd]
        /\ sessionLoading' = Finally(sessionLoading)
        /\ \/ /\ Accepts("revokeSessionKey", HookWallet, cmds[i].ledger)
              /\ ChainEffect("revokeSessionKey", cmds[i].ledger, NoKey)
           \/ UNCHANGED <<ledgerVars, basePush, erPush>>
        /\ last' = "revokeTimeout"
        /\ UNCHANGED <<publicKey, boardVars, sessionKey, sessionWallet, isRegistered, cache,
                       restore, regCheck, lastTx, ops, auxVars>>

\* clearSessionOnUndelegate, called by GameBoard's undelegatePlayer.
ClearSessionOnUndelegate ==
    /\ cache' = ClearSessionKey(cache)
    /\ sessionKey' = NoKey /\ sessionWallet' = NoKey
    /\ isRegistered' = FALSE

\* ------------------------------------------------- GameBoard commands
\* movePlayer: "Use session wallet if available, otherwise use main wallet".
ActiveWallet == IF isRegistered /\ sessionWallet # NoKey THEN sessionWallet ELSE "primary"
\* movePlayer: "Use ER connection if delegated, base connection otherwise",
\* from the isDelegated state of the render the handler belongs to.
MoveLedger == IF isDelegated THEN "er" ELSE "base"
\* delegatePlayer, undelegatePlayer, commitPlayer build their provider with
\* the main wallet.
DelegateWallet == "primary"
\* (An undelegatePlayer signing with movePlayer's wallet would be:)
UndelegateWalletActive == ActiveWallet
UndelegateWallet == "primary"
CommitWallet == "primary"

\* What the render shows: the early returns of GameBoard and the buttons'
\* conditions.
Connected == publicKey # NoWallet
ShowsInitialize == Connected /\ ~boardInitialized
ShowsJoin == Connected /\ boardInitialized /\ player = NoPlayer
ShowsBoard == Connected /\ boardInitialized /\ player # NoPlayer

\* The base layer marker of the grid: basePlayer && isDelegated &&
\* (basePlayer.x !== erPlayer?.x || basePlayer.y !== erPlayer?.y); with
\* erPlayer null, erPlayer?.x is undefined and differs from every number.
PositionsDiffer ==
    erPlayer = NoPlayer \/ basePlayer.x # erPlayer.x \/ basePlayer.y # erPlayer.y
\* (The marker condition without its isDelegated conjunct would be:)
BaseMarkerUnflagged == basePlayer # NoPlayer /\ PositionsDiffer
BaseMarkerCond == basePlayer # NoPlayer /\ isDelegated /\ PositionsDiffer
ShowsBaseMarker == ShowsBoard /\ BaseMarkerCond

StartGcmd(op, signer, l, arg) ==
    /\ gcmd = NoGcmd /\ ~loading /\ ops < budget.ops
    /\ loading' = TRUE
    /\ gcmd' = [NoGcmd EXCEPT !.op = op, !.pc = "rpc", !.signer = signer, !.ledger = l,
                              !.arg = arg, !.closure = boardInitialized]
    /\ lastTx' = Tx(op, signer, l)
    /\ last' = op
    /\ ops' = ops + 1 /\ UNCHANGED auxVars
    /\ UNCHANGED <<publicKey, ledgerVars, viewVars, boardInitialized, fetches, boardCheck,
                   basePush, erPush, hookVars, cmds, restore, regCheck>>

InitializeBoard == ShowsInitialize /\ StartGcmd("initialize", "primary", "base", <<0, 0>>)
JoinGame == ShowsJoin /\ StartGcmd("joinGame", "primary", "base", <<0, 0>>)
MovePlayer == ShowsBoard /\ \E d \in Deltas : StartGcmd("movePlayer", ActiveWallet, MoveLedger, d)
DelegatePlayer ==
    ShowsBoard /\ ~player.isDelegated /\ StartGcmd("delegatePlayer", DelegateWallet, "base", <<0, 0>>)
UndelegatePlayer ==
    ShowsBoard /\ player.isDelegated /\ StartGcmd("undelegatePlayer", UndelegateWallet, "er", <<0, 0>>)
CommitPlayer ==
    ShowsBoard /\ player.isDelegated /\ StartGcmd("commitPlayer", CommitWallet, "er", <<0, 0>>)

\* The transaction of the GameBoard command in flight succeeds.
GameRpcOk ==
    /\ gcmd.pc = "rpc"
    /\ Accepts(gcmd.op, gcmd.signer, gcmd.ledger)
    /\ ChainEffect(gcmd.op, gcmd.ledger, gcmd.arg)
    /\ last' = gcmd.op \o "Ok"
    /\ CASE gcmd.op = "initialize" ->
              /\ boardInitialized' = TRUE
              /\ gcmd' = NoGcmd /\ loading' = FALSE
              /\ UNCHANGED hookVars
         [] gcmd.op = "commitPlayer" ->
              /\ gcmd' = NoGcmd /\ loading' = FALSE
              /\ UNCHANGED <<boardInitialized, hookVars>>
         [] gcmd.op = "undelegatePlayer" ->
              /\ ClearSessionOnUndelegate
              /\ gcmd' = [gcmd EXCEPT !.pc = "fetch", !.f = NewFetch]
              /\ UNCHANGED <<boardInitialized, loading, sessionLoading>>
         [] OTHER ->
              /\ gcmd' = [gcmd EXCEPT !.pc = "fetch", !.f = NewFetch]
              /\ UNCHANGED <<boardInitialized, loading, hookVars>>
    /\ UNCHANGED <<publicKey, viewVars, fetches, boardCheck, cmds, restore, regCheck, lastTx, ops, auxVars>>

\* The transaction fails with an explicit error: the catch-block reports it.
GameRpcFail ==
    /\ gcmd.pc = "rpc"
    /\ gcmd' = NoGcmd /\ loading' = FALSE
    /\ last' = gcmd.op \o "Fail"
    /\ UNCHANGED <<publicKey, ledgerVars, viewVars, boardInitialized, fetches, boardCheck,
                   basePush, erPush, hookVars, cmds, restore, regCheck, lastTx, ops, auxVars>>

\* initializeBoard or joinGame ends in a timeout: the transaction may or may
\* not have taken effect; the handler re-reads (checkBoardInitialized,
\* fetchPlayerData).
GameRpcTimeout ==
    /\ gcmd.pc = "rpc" /\ gcmd.op \in {"initialize", "joinGame"}
    /\ \/ /\ Accepts(gcmd.op, gcmd.signer, gcmd.ledger)
          /\ ChainEffect(gcmd.op, gcmd.ledger, gcmd.arg)
       \/ UNCHANGED <<ledgerVars, basePush, erPush>>
    /\ IF gcmd.op = "initialize"
       THEN gcmd' = [gcmd EXCEPT !.pc = "recheck"]
       ELSE gcmd' = [gcmd EXCEPT !.pc = "fetch", !.f = NewFetch]
    /\ last' = gcmd.op \o "Timeout"
    /\ UNCHANGED <<publicKey, viewVars, loading, boardInitialized, fetches, boardCheck,
                   hookVars, cmds, restore, regCheck, lastTx, ops, auxVars>>

\* The notification after the recheck: if (!boardInitialized) toast.error(
\* "Board not initialized..."), with the boardInitialized of the render
\* whose handler is running.
ReportsNotInitialized(closure) == ~closure
\* checkBoardInitialized called by initializeBoard after a timeout resumes:
\* its read answers (present or absent) or throws, which it catches; then
\* initializeBoard tests boardInitialized and its finally-block runs.
BoardRecheckResume ==
    /\ gcmd.pc = "recheck"
    /\ \E read \in {IF boardExists THEN "Present" ELSE "Absent", "Failed"} :
        /\ IF read = "Failed"
           THEN UNCHANGED boardInitialized
           ELSE boardInitialized' = boardExists
        /\ last' = "recheck" \o read \o
                   (IF ReportsNotInitialized(gcmd.closure) THEN "Reported" ELSE "")
    /\ gcmd' = NoGcmd /\ loading' = FALSE
    /\ UNCHANGED <<publicKey, ledgerVars, viewVars, fetches, boardCheck, basePush, erPush,
                   hookVars, cmds, restore, regCheck, lastTx, ops, auxVars>>

\* The fetchPlayerData awaited by the GameBoard command resumes; when it
\* returns, the command's finally-block clears loading.
GameFetchResume ==
    /\ gcmd.pc = "fetch"
    /\ \E r \in FetchResults(gcmd.f) :
        /\ FetchSets(r)
        /\ IF r.nf = NoFetch
           THEN gcmd' = NoGcmd /\ loading' = FALSE
           ELSE gcmd' = [gcmd EXCEPT !.f = r.nf] /\ UNCHANGED loading
        /\ last' = r.lbl
    /\ UNCHANGED <<publicKey, ledgerVars, boardInitialized, fetches, boardCheck,
                   basePush, erPush, hookVars, cmds, restore, regCheck, lastTx, ops, auxVars>>

\* ------------------------------------------------------- SessionWallet
\* A transaction as the wallet interface sees it. kind is "legacy"
\* (Transaction: the fee payer is a field that can be assigned) or
\* "versioned" (VersionedTransaction: the message, with its fee payer and
\* required signers, is compiled already). req are the keys the instructions
\* require as signers, sigs the keys that have signed.
SignKeys == {"A", DerivedKey("A"), "B"}
TxInputs ==
    {[kind |-> "legacy", feePayer |-> p, req |-> r, sigs |-> {}] :
        p \in SignKeys \cup {"none"}, r \in SUBSET {"A", DerivedKey("A")}}
    \cup {[kind |-> "versioned", feePayer |-> p, req |-> r, sigs |-> {}] :
        p \in SignKeys, r \in SUBSET {"A", DerivedKey("A")}}
Batches == UNION {[1..n -> TxInputs] : n \in 1..MaxBatch}

\* tx.sign([sessionKey]) of a VersionedTransaction throws for a key that is
\* not a required signer of the compiled message.
CanSignVersioned(tx, key) == key = tx.feePayer \/ key \in tx.req
\* tx.sign([this.sessionKey]).
SignVersioned(tx, key) == [tx EXCEPT !.sigs = @ \cup {key}]
\* (A legacy signing that skipped the fee payer assignment would be:)
SignLegacyKeepPayer(tx, key) == [tx EXCEPT !.sigs = @ \cup {key}]
\* tx.feePayer = this.sessionKey.publicKey; tx.partialSign(this.sessionKey).
SignLegacy(tx, key) == [tx EXCEPT !.feePayer = key, !.sigs = @ \cup {key}]
\* The body shared by signTransaction and the map of signAllTransactions.
Throws(tx, key) == tx.kind = "versioned" /\ ~CanSignVersioned(tx, key)
SignOne(tx, key) == IF tx.kind = "versioned" THEN SignVersioned(tx, key) ELSE SignLegacy(tx, key)

\* The index of the first transaction of the batch whose signing throws, 0
\* if none does.
FirstThrow(batch, key) ==
    IF \E i \in DOMAIN batch : Throws(batch[i], key)
    THEN CHOOSE i \in DOMAIN batch :
            Throws(batch[i], key) /\ \A j \in 1..(i - 1) : ~Throws(batch[j], key)
    ELSE 0

\* SessionWallet.signTransaction(tx).
SignTransaction ==
    /\ signPc = "ready" /\ Len(txs) = 1
    /\ IF Throws(txs[1], sessionWallet)
       THEN signPc' = "threw" /\ UNCHANGED txs
       ELSE signPc' = "returned" /\ txs' = <<SignOne(txs[1], sessionWallet)>>
    /\ last' = "signTransaction"
    /\ UNCHANGED <<publicKey, ledgerVars, boardVars, basePush, erPush, hookVars, cmds,
                   restore, regCheck, lastTx, ops, budget, txOrig, subVars,
                   keyVars, listVars, dialog>>

\* SessionWallet.signAllTransactions(txs): the map signs in order, in place,
\* and stops at the first transaction whose signing throws.
SignAllTransactions ==
    /\ signPc = "ready"
    /\ LET k == FirstThrow(txs, sessionWallet) IN
          /\ signPc' = IF k = 0 THEN "returned" ELSE "threw"
          /\ txs' = [i \in DOMAIN txs |->
                        IF k = 0 \/ i < k THEN SignOne(txs[i], sessionWallet) ELSE txs[i]]
    /\ last' = "signAllTransactions"
    /\ UNCHANGED <<publicKey, ledgerVars, boardVars, basePush, erPush, hookVars, cmds,
                   restore, regCheck, lastTx, ops, budget, txOrig, subVars,
                   keyVars, listVars, dialog>>

\* A SessionWallet of identity A, as useSessionKey constructs it, about to
\* be handed a batch of transactions.
InitSign ==
    /\ publicKey = "A"
    /\ baseOwner = "program" /\ baseData = Joined /\ erData = NoAccount /\ boardExists = TRUE
    /\ basePlayer = NoPlayer /\ erPlayer = NoPlayer /\ isDelegated = FALSE
    /\ loading = FALSE /\ boardInitialized = FALSE
    /\ gcmd = NoGcmd
    /\ fetches = [i \in 1..MaxFetches |-> NoFetch]
    /\ boardCheck = FALSE
    /\ basePush = <<>> /\ erPush = <<>>
    /\ sessionKey = DerivedKey("A") /\ sessionWallet = DerivedKey("A")
    /\ isRegistered = FALSE /\ sessionLoading = FALSE
    /\ cache = DerivedKey("A")
    /\ restore = "idle"
    /\ regCheck = NoRegCheck
    /\ cmds = [i \in 1..MaxCmds |-> NoCmd]
    /\ lastTx = NoTx
    /\ last = "init"
    /\ ops = 0
    /\ budget = [ops |-> 0, cmds |-> 0]
    /\ txOrig \in Batches /\ txs = txOrig /\ signPc = "ready"
    /\ SubsAtMount(0) /\ NoKeyLib /\ NoListing /\ DialogAtMount

NextSign == SignTransaction \/ SignAllTransactions

\* ------------------------------------------------ GameBoard change listeners
\* The identities the subscription effect is run for.
SubIdentities == {"A", "B"}
\* The handle a connection gives out first: 0, or 1 when it has given out
\* one before.
FirstHandles == {0, 1}

\* if (baseSubscriptionId.current): a null handle and the handle 0 are falsy.
Truthy(h) == h # NoSub /\ h # 0

\* The refs and the connections' listeners as one value st = [h, ls, n].
SubState == [h |-> subId, ls |-> listeners, n |-> nextId]
\* connection.removeAccountChangeListener(id): the listener is dropped when
\* the call is made; an unknown id is ignored.
RemoveListener(st, l, id) == [st EXCEPT !.ls[l] = {x \in @ : x.id # id}]
\* ref.current = connection.onAccountChange(playerPda, handler): a listener
\* for the account of who is installed under the connection's next handle.
InstallListener(st, l, who) ==
    [st EXCEPT !.ls[l] = @ \cup {[id |-> st.n[l], who |-> who]},
               !.h[l] = st.n[l],
               !.n[l] = @ + 1]

\* subscribeToPlayerUpdates, from a point of its body up to its next await
\* or its end: the state it leaves and where it is suspended ("done" when it
\* has returned).
SubFromEr(st, who) ==
    IF Truthy(st.h["er"])
    THEN [st |-> RemoveListener(st, "er", st.h["er"]), pc |-> "erRemove"]
    ELSE [st |-> InstallListener(st, "er", who), pc |-> "done"]
SubFromBase(st, who) ==
    IF Truthy(st.h["base"])
    THEN [st |-> RemoveListener(st, "base", st.h["base"]), pc |-> "baseRemove"]
    ELSE SubFromEr(InstallListener(st, "base", who), who)
SubAfterAwait(st, who, pc) ==
    IF pc = "baseRemove"
    THEN SubFromEr(InstallListener(st, "base", who), who)
    ELSE [st |-> InstallListener(st, "er", who), pc |-> "done"]

\* unsubscribeFromUpdates, likewise.
UnsubFromEr(st) ==
    IF Truthy(st.h["er"])
    THEN [st |-> RemoveListener(st, "er", st.h["er"]), pc |-> "erRemove"]
    ELSE [st |-> st, pc |-> "done"]
UnsubFromBase(st) ==
    IF Truthy(st.h["base"])
    THEN [st |-> RemoveListener(st, "base", st.h["base"]), pc |-> "baseRemove"]
    ELSE UnsubFromEr(st)
UnsubAfterAwait(st, pc) ==
    IF pc = "baseRemove"
    THEN UnsubFromEr([st EXCEPT !.h["base"] = NoSub])
    ELSE [st |-> [st EXCEPT !.h["er"] = NoSub], pc |-> "done"]

\* The calls left suspended by a step: r is the result of a call's segment.
Suspended(kind, who, r) ==
    IF r.pc = "done" THEN <<>> ELSE <<[kind |-> kind, who |-> who, pc |-> r.pc]>>
SubSets(st, calls) ==
    /\ Len(calls) <= MaxSubCalls
    /\ subId' = st.h /\ listeners' = st.ls /\ nextId' = st.n
    /\ subCalls' = calls

\* The effect of GameBoard runs for a new identity (connect, or a switch of
\* identity): the cleanup of the previous run calls unsubscribeFromUpdates,
\* the new run calls subscribeToPlayerUpdates.
SubConnect ==
    \E id \in SubIdentities \ {publicKey} :
        /\ mounted /\ ops < budget.ops
        /\ publicKey' = id
        /\ LET u == UnsubFromBase(SubState)
               r == SubFromBase(u.st, id)
           IN  SubSets(r.st, subCalls \o Suspended("unsub", NoWallet, u) \o Suspended("sub", id, r))
        /\ last' = "subConnect" /\ ops' = ops + 1
        /\ UNCHANGED <<ledgerVars, boardVars, basePush, erPush, hookVars, cmds, restore,
                       regCheck, lastTx, budget, txOrig, txs, signPc, mounted,
                   keyVars, listVars, dialog>>

\* The identity disconnects: the cleanup calls unsubscribeFromUpdates, and
\* so does the else-branch of the new run.
SubDisconnect ==
    /\ mounted /\ publicKey # NoWallet /\ ops < budget.ops
    /\ publicKey' = NoWallet
    /\ LET u == UnsubFromBase(SubState)
           v == UnsubFromBase(u.st)
       IN  SubSets(v.st, subCalls \o Suspended("unsub", NoWallet, u)
                            \o Suspended("unsub", NoWallet, v))
    /\ last' = "subDisconnect" /\ ops' = ops + 1
    /\ UNCHANGED <<ledgerVars, boardVars, basePush, erPush, hookVars, cmds, restore,
                   regCheck, lastTx, budget, txOrig, txs, signPc, mounted,
                   keyVars, listVars, dialog>>

\* The component is torn down: the cleanup calls unsubscribeFromUpdates.
SubUnmount ==
    /\ mounted /\ ops < budget.ops
    /\ mounted' = FALSE
    /\ LET u == UnsubFromBase(SubState)
       IN  SubSets(u.st, subCalls \o Suspended("unsub", NoWallet, u))
    /\ last' = "subUnmount" /\ ops' = ops + 1
    /\ UNCHANGED <<publicKey, ledgerVars, boardVars, basePush, erPush, hookVars, cmds,
                   restore, regCheck, lastTx, budget, txOrig, txs, signPc,
                   keyVars, listVars, dialog>>

\* The sequence without its i-th element, or with it replaced.
Without(seq, i) == SubSeq(seq, 1, i - 1) \o SubSeq(seq, i + 1, Len(seq))

\* A suspended subscribe or unsubscribe call resumes after its await.
SubResume ==
    \E i \in DOMAIN subCalls :
        LET c == subCalls[i]
            r == IF c.kind = "sub" THEN SubAfterAwait(SubState, c.who, c.pc)
                                   ELSE UnsubAfterAwait(SubState, c.pc)
        IN  /\ SubSets(r.st, IF r.pc = "done" THEN Without(subCalls, i)
                                              ELSE [subCalls EXCEPT ![i].pc = r.pc])
            /\ last' = IF c.kind = "sub" THEN "subscribeResume" ELSE "unsubscribeResume"
            /\ UNCHANGED <<publicKey, ledgerVars, boardVars, basePush, erPush, hookVars, cmds,
                           restore, regCheck, lastTx, ops, budget, txOrig, txs, signPc, mounted,
                   keyVars, listVars, dialog>>

\* GameBoard mounted with no wallet connected; only the subscription effect
\* runs.
InitSub ==
    /\ InitState /\ NoSigning /\ NoKeyLib /\ NoListing /\ DialogAtMount
    /\ baseOwner = "absent" /\ ~boardExists /\ cache = NoKey
    /\ \E first \in FirstHandles : SubsAtMount(first)
    /\ budget = [ops |-> MaxSubEvents, cmds |-> 0]

NextSub == SubConnect \/ SubDisconnect \/ SubUnmount \/ SubResume

\* ------------------------------------------- lib/sessionKey.ts calls
KeyFrame ==
    /\ ops' = ops + 1
    /\ UNCHANGED <<publicKey, ledgerVars, boardVars, basePush, erPush, hookVars, cmds,
                   restore, regCheck, lastTx, budget, txOrig, txs, signPc, subVars, keyEnv,
                   listVars, dialog>>

\* One run of deriveSessionKey for id: the wallet signs or rejects.
Derived(id, signs) ==
    /\ deriveRuns' = [deriveRuns EXCEPT ![id] = @ + 1]
    /\ derivedKeys' = IF signs
                      THEN [derivedKeys EXCEPT
                               ![id] = @ \cup {DeriveResult(id, keyEnv, deriveRuns[id] + 1)}]
                      ELSE derivedKeys

\* deriveSessionKey(wallet, connection)
DeriveSessionKey ==
    /\ ops < budget.ops
    /\ \E id \in KeyIds, signs \in BOOLEAN :
          /\ Derived(id, signs)
          /\ keyOut' = KeyOut("derive", id, signs,
                              IF signs THEN DeriveResult(id, keyEnv, deriveRuns[id] + 1)
                              ELSE NoKeypair, TRUE, FALSE, "none")
    /\ last' = "deriveSessionKey"
    /\ UNCHANGED storage
    /\ KeyFrame

\* getOrCreateSessionKey(wallet, walletPubkey, connection)
GetOrCreateSessionKey ==
    /\ ops < budget.ops
    /\ \E id \in KeyIds, signs \in BOOLEAN :
          LET found == LoadOutcome(storage[id])
              kp == DeriveResult(id, keyEnv, deriveRuns[id] + 1)
          IN  CASE found = "hit" ->
                     /\ signs
                     /\ keyOut' = KeyOut("getOrCreate", id, TRUE, Deserialize(storage[id]).kp,
                                         FALSE, FALSE, found)
                     /\ UNCHANGED <<storage, deriveRuns, derivedKeys>>
                [] found = "raise" ->
                     /\ signs
                     /\ keyOut' = KeyOut("getOrCreate", id, FALSE, NoKeypair, FALSE, FALSE, found)
                     /\ UNCHANGED <<storage, deriveRuns, derivedKeys>>
                [] OTHER ->
                     /\ Derived(id, signs)
                     /\ keyOut' = KeyOut("getOrCreate", id, signs,
                                         IF signs THEN kp ELSE NoKeypair, TRUE, FALSE, found)
                     /\ storage' = IF signs THEN [storage EXCEPT ![id] = Serialize(kp)]
                                   ELSE storage
    /\ last' = "getOrCreateSessionKey"
    /\ KeyFrame

\* clearSessionKey(walletPubkey)
ClearSessionKeyCall ==
    /\ ops < budget.ops
    /\ \E id \in KeyIds :
          /\ storage' = [storage EXCEPT ![id] = NoEntry]
          /\ keyOut' = KeyOut("clear", id, TRUE, NoKeypair, FALSE, FALSE, "none")
    /\ last' = "clearSessionKey"
    /\ UNCHANGED <<deriveRuns, derivedKeys>>
    /\ KeyFrame

\* hasSessionKey(walletPubkey)
HasSessionKeyCall ==
    /\ ops < budget.ops
    /\ \E id \in KeyIds :
          keyOut' = KeyOut("has", id, TRUE, NoKeypair, FALSE, HasSessionKey(storage[id]), "none")
    /\ last' = "hasSessionKey"
    /\ UNCHANGED <<storage, deriveRuns, derivedKeys>>
    /\ KeyFrame

\* What a page load can find in localStorage for an identity.
InitEntries(id, env) ==
    {NoEntry, EmptyEntry, GarbageEntry, ShortEntry, MismatchEntry,
     Serialize(DeriveResult(id, env, 1))}

InitKey ==
    /\ InitState /\ NoSigning /\ SubsAtMount(0) /\ NoListing /\ DialogAtMount
    /\ publicKey = NoWallet /\ baseOwner = "absent" /\ ~boardExists /\ cache = NoKey
    /\ keyEnv \in [hasSignMessage : BOOLEAN, origin : Origins]
    /\ storage \in [KeyIds -> UNION {InitEntries(id, keyEnv) : id \in KeyIds}]
    /\ keyOut = KeyOut("none", "", TRUE, NoKeypair, FALSE, FALSE, "none")
    /\ deriveRuns = [id \in KeyIds |-> 0]
    /\ derivedKeys = [id \in KeyIds |-> {}]
    /\ budget = [ops |-> MaxKeyOps, cmds |-> 0]

NextKey == DeriveSessionKey \/ GetOrCreateSessionKey \/ ClearSessionKeyCall \/ HasSessionKeyCall

\* ------------------------------------------ fetchAllPlayers, as called
ListFrame ==
    /\ ops' = ops + 1
    /\ UNCHANGED <<publicKey, ledgerVars, boardVars, basePush, erPush, hookVars, cmds,
                   restore, regCheck, lastTx, budget, txOrig, txs, signPc, subVars, keyVars,
                   dialog>>

\* fetchAllPlayers runs to its end: the rollup listing may fail (then no
\* rollup entry is seen), the primary listing may fail (then nothing is set).
FetchAllPlayers ==
    /\ ops < budget.ops
    /\ \E baseOk \in BOOLEAN, erOk \in BOOLEAN :
          /\ baseOk \/ erOk
          /\ IF baseOk
             THEN /\ allPlayers' = MergePlayers(ledgerPlayers.base, ledgerPlayers.delegated,
                                                IF erOk THEN ledgerPlayers.er ELSE <<>>)
                  /\ last' = IF erOk THEN "allPlayers" ELSE "allPlayersNoEr"
             ELSE /\ UNCHANGED allPlayers
                  /\ last' = "allPlayersFail"
    /\ UNCHANGED ledgerPlayers
    /\ ListFrame

\* Players join, move, delegate or undelegate: the listings change.
ListingsChange ==
    /\ ops < budget.ops
    /\ \E l \in LedgerListings : l # ledgerPlayers /\ ledgerPlayers' = l
    /\ last' = "listingsChange"
    /\ UNCHANGED allPlayers
    /\ ListFrame

InitList ==
    /\ InitState /\ NoSigning /\ SubsAtMount(0) /\ NoKeyLib /\ DialogAtMount
    /\ baseOwner = "absent" /\ ~boardExists /\ cache = NoKey
    /\ ledgerPlayers \in LedgerListings
    /\ allPlayers = <<>>
    /\ budget = [ops |-> MaxListOps, cmds |-> 0]

NextList == FetchAllPlayers \/ ListingsChange

\* ------------------------------------------------ tests/test-2.ts
\* The moves the test client submits, and the corners of the signed 8-bit
\* range.
TestMoves == {<<5, -3>>, <<-2, 4>>, <<-50, -50>>, <<127, 127>>, <<-128, -128>>, <<127, -128>>}

\* program.methods.movePlayer(dx, dy).rpc() by the account's authority on
\* the primary ledger.
TestMovePlayer ==
    /\ ops < budget.ops
    /\ \E d \in TestMoves :
          /\ Accepts("movePlayer", "primary", "base")
          /\ ChainEffect("movePlayer", "base", d)
          /\ lastTx' = [Tx("movePlayer", "primary", "base") EXCEPT !.arg = d]
    /\ last' = "testMove"
    /\ ops' = ops + 1 /\ UNCHANGED auxVars
    /\ UNCHANGED <<publicKey, boardVars, hookVars, cmds, restore, regCheck>>

\* The player has just joined; no client of the web application runs.
InitMove ==
    /\ InitState /\ NoSigning /\ SubsAtMount(0) /\ NoKeyLib /\ NoListing /\ DialogAtMount
    /\ baseOwner = "program" /\ baseData = Joined /\ cache = NoKey
    /\ budget = [ops |-> MaxMoves, cmds |-> 0]

NextMove == TestMovePlayer

\* ---------------------------------------------------------- environment
\* Another device of the same identity delegates or undelegates the account.
EnvDelegate ==
    /\ ops < budget.ops
    /\ Accepts("delegatePlayer", "primary", "base")
    /\ ChainEffect("delegatePlayer", "base", <<0, 0>>)
    /\ last' = "envDelegate" /\ ops' = ops + 1 /\ UNCHANGED auxVars
    /\ UNCHANGED <<publicKey, boardVars, hookVars, cmds, restore, regCheck, lastTx>>

EnvUndelegate ==
    /\ ops < budget.ops
    /\ Accepts("undelegatePlayer", "primary", "er")
    /\ ChainEffect("undelegatePlayer", "er", <<0, 0>>)
    /\ last' = "envUndelegate" /\ ops' = ops + 1 /\ UNCHANGED auxVars
    /\ UNCHANGED <<publicKey, boardVars, hookVars, cmds, restore, regCheck, lastTx>>

\* Another device of the same identity moves the player on the ledger that
\* controls the account.
EnvMove ==
    /\ ops < budget.ops
    /\ \E l \in {"base", "er"}, d \in Deltas :
          /\ Accepts("movePlayer", "primary", l)
          /\ ChainEffect("movePlayer", l, d)
    /\ last' = "envMove" /\ ops' = ops + 1 /\ UNCHANGED auxVars
    /\ UNCHANGED <<publicKey, boardVars, hookVars, cmds, restore, regCheck, lastTx>>

\* Somebody transfers lamports to the player address before a player
\* account was created there: the address becomes an account of the system
\* program without data, and the change is pushed like any other.
EnvFundAddress ==
    /\ ops < budget.ops
    /\ baseOwner = "absent" /\ Room(basePush)
    /\ baseOwner' = "system"
    /\ basePush' = Notify(basePush, "system", NoAccount)
    /\ last' = "envFundAddress" /\ ops' = ops + 1 /\ UNCHANGED auxVars
    /\ UNCHANGED <<publicKey, baseData, erData, boardExists, erPush, boardVars, hookVars, cmds,
                   restore, regCheck, lastTx>>

\* --------------------- hooks/useSessionKey.ts (register, then fund)
\* The hook whose registerSessionKey always uses the primary ledger and
\* funds the key itself after the register transaction.

\* isRegistered is set only when the funding went through.
RegisteredIfFunded(funded, before) == IF funded THEN TRUE ELSE before
\* setIsRegistered(true) comes after the inner try/catch around the funding,
\* so it runs whether the funding went through or not.
RegisteredAfterFunding(funded, before) == TRUE

\* registerSessionKey is called.
OldRegisterSessionKey ==
    \E i \in 1..MaxCmds :
        /\ FreeSlot(i) /\ publicKey # NoWallet /\ ops < budget.ops
        /\ LET c == [NoCmd EXCEPT !.op = "oldRegister", !.id = publicKey,
                                  !.ledger = GetConnection] IN
           IF sessionKey # NoKey
           THEN /\ cmds' = [cmds EXCEPT ![i] = [c EXCEPT !.pc = "rpc", !.key = sessionKey]]
                /\ lastTx' = Tx("registerSessionKey", HookWallet, GetConnection)
                /\ sessionLoading' = TRUE
                /\ last' = "oldRegisterSubmit"
                /\ UNCHANGED <<sessionKey, sessionWallet>>
           ELSE IF CacheHit
                THEN /\ cmds' = [cmds EXCEPT ![i] = [c EXCEPT !.pc = "rpc", !.key = cache]]
                     /\ lastTx' = Tx("registerSessionKey", HookWallet, GetConnection)
                     /\ sessionKey' = cache /\ sessionWallet' = cache
                     /\ sessionLoading' = Finally(TRUE)
                     /\ last' = "oldRegisterSubmitHit"
                ELSE /\ cmds' = [cmds EXCEPT ![i] = [c EXCEPT !.pc = "sign", !.inner = TRUE]]
                     /\ sessionLoading' = TRUE
                     /\ last' = "oldRegisterStartSign"
                     /\ UNCHANGED <<sessionKey, sessionWallet, lastTx>>
        /\ ops' = ops + 1 /\ UNCHANGED auxVars
        /\ UNCHANGED <<publicKey, ledgerVars, boardVars, basePush, erPush, isRegistered, cache,
                       restore, regCheck>>

\* The signer answers the derivation request of the createSessionKey inside
\* registerSessionKey; with a key the register instruction is submitted.
OldRegisterSignResume ==
    \E i \in 1..MaxCmds :
        /\ cmds[i].op = "oldRegister" /\ cmds[i].pc = "sign"
        /\ sessionLoading' = Finally(sessionLoading)
        /\ \/ /\ cache' = DerivedKey(cmds[i].id)
              /\ sessionKey' = DerivedKey(cmds[i].id)
              /\ sessionWallet' = DerivedKey(cmds[i].id)
              /\ cmds' = [cmds EXCEPT ![i] = [@ EXCEPT !.pc = "rpc", !.inner = FALSE,
                                                        !.key = DerivedKey(cmds[i].id)]]
              /\ lastTx' = Tx("registerSessionKey", HookWallet, cmds[i].ledger)
              /\ last' = "oldRegisterSigned"
           \/ /\ UNCHANGED <<cache, sessionKey, sessionWallet, lastTx>>
              /\ cmds' = [cmds EXCEPT ![i] = NoCmd]             \* if (!key) return false
              /\ last' = "oldRegisterNoKey"
        /\ UNCHANGED <<publicKey, ledgerVars, boardVars, basePush, erPush, isRegistered,
                       restore, regCheck, ops, auxVars>>

\* The register transaction succeeds, and the funding transfer is sent on the
\* same connection, or it fails and the outer catch reports it.
OldRegisterRpcResume ==
    \E i \in 1..MaxCmds :
        /\ cmds[i].op = "oldRegister" /\ cmds[i].pc = "rpc"
        /\ \/ /\ Accepts("registerSessionKey", HookWallet, cmds[i].ledger)
              /\ ChainEffect("registerSessionKey", cmds[i].ledger, cmds[i].key)
              /\ cmds' = [cmds EXCEPT ![i] = [@ EXCEPT !.pc = "fund"]]
              /\ lastTx' = FundSessionKey(HookWallet, cmds[i].key, cmds[i].ledger,
                                          DefaultLamports)
              /\ last' = "oldRegisterOk"
              /\ UNCHANGED sessionLoading
           \/ /\ cmds' = [cmds EXCEPT ![i] = NoCmd]
              /\ sessionLoading' = Finally(sessionLoading)
              /\ last' = "oldRegisterFail"
              /\ UNCHANGED <<ledgerVars, basePush, erPush, lastTx>>
        /\ UNCHANGED <<publicKey, boardVars, sessionKey, sessionWallet, isRegistered, cache,
                       restore, regCheck, ops, auxVars>>

\* The funding transfer succeeds or fails; a failure is caught and reported
\* as a warning, and registerSessionKey goes on to return true.
OldRegisterFundResume ==
    \E i \in 1..MaxCmds, funded \in BOOLEAN :
        /\ cmds[i].op = "oldRegister" /\ cmds[i].pc = "fund"
        /\ cmds' = [cmds EXCEPT ![i] = NoCmd]
        /\ sessionLoading' = Finally(sessionLoading)
        /\ isRegistered' = RegisteredAfterFunding(funded, isRegistered)
        /\ last' = IF funded THEN "oldRegisterFunded" ELSE "oldRegisterFundFail"
        /\ UNCHANGED <<publicKey, ledgerVars, boardVars, basePush, erPush, sessionKey,
                       sessionWallet, cache, restore, regCheck, lastTx, ops, auxVars>>

\* A wallet is connected and the hook holds nothing yet.
InitOldHook ==
    /\ InitStateFor("A") /\ NoSigning /\ SubsAtMount(0) /\ NoKeyLib /\ NoListing /\ DialogAtMount
    /\ budget = [ops |-> MaxOldHookOps, cmds |-> MaxCmds]

NextOldHook ==
    \/ CreateSessionKey \/ CreateResume
    \/ OldRegisterSessionKey \/ OldRegisterSignResume \/ OldRegisterRpcResume
    \/ OldRegisterFundResume
    \/ HandleBaseChange
    \/ EnvDelegate \/ EnvUndelegate

\* ------------------------------------------- SessionKeySetupDialog calls
DialogFrame ==
    UNCHANGED <<publicKey, ledgerVars, boardVars, basePush, erPush, hookVars, cmds, restore,
                regCheck, lastTx, last, ops, restVars>>

\* GameBoard's "enable session keys" button: setShowSessionSetupDialog(true).
OpenDialog ==
    /\ publicKey # NoWallet /\ ~dialog.open
    /\ dialog' = [dialog EXCEPT !.open = TRUE]
    /\ DialogFrame

\* Escape or a click outside: Dialog's onOpenChange is GameBoard's setter,
\* the dialog's own state stays as it is.
DismissDialog ==
    /\ publicKey # NoWallet /\ dialog.open
    /\ dialog' = [dialog EXCEPT !.open = FALSE]
    /\ DialogFrame

\* handleNext, from the click to its first await (or to its end when the
\* hook returns at once): the hook command of the current step is called.
HandleNext ==
    \E i \in 1..MaxCmds :
        /\ dialog.open /\ ~dialog.loading
        /\ IF dialog.currentStep = 0 THEN CreateSessionKeyIn(i)
           ELSE IF dialog.currentStep = 1 THEN RegisterSessionKeyIn(i)
           ELSE FundSessionKeyWalletIn(i)
        /\ LET d == [dialog EXCEPT !.loading = TRUE, !.error = FALSE, !.awaits = i,
                                   !.call = [step |-> dialog.currentStep,
                                             completedSteps |-> dialog.completedSteps]]
           IN  dialog' = IF cmds'[i] = NoCmd
                         THEN HandleNextReturns(d, ReturnedBy(last', sessionKey'))
                         ELSE d

\* The Cancel button (disabled while loading): handleClose.
HandleClose ==
    /\ publicKey # NoWallet /\ dialog.open /\ ~dialog.loading
    /\ dialog' = HandleCloseOf(dialog)
    /\ DialogFrame

\* "Skip (Already Funded)", offered at the funding step when the key holds
\* enough: the step is marked completed and the close timer armed.
SkipFunding ==
    /\ publicKey # NoWallet /\ dialog.open /\ ~dialog.loading /\ dialog.currentStep = 2
    /\ dialog' = [dialog EXCEPT !.completedSteps = @ \cup {2}, !.timer = TRUE]
    /\ DialogFrame

\* The timer armed after the funding step fires: onComplete, handleClose.
CloseTimer ==
    /\ dialog.timer
    /\ dialog' = [HandleCloseOf(dialog) EXCEPT !.timer = FALSE]
    /\ DialogFrame

\* The dialog over the hook, the wallet connected at the start.
InitDialog ==
    /\ InitStateFor("A") /\ NoSigning /\ SubsAtMount(0) /\ NoKeyLib /\ NoListing /\ DialogAtMount
    /\ budget = [ops |-> MaxDialogOps, cmds |-> MaxCmds]

NextDialog ==
    \/ OpenDialog \/ DismissDialog \/ HandleNext \/ HandleClose \/ SkipFunding \/ CloseTimer
    \/ CreateResume
    \/ RegisterSignResume \/ RegisterStatusResume \/ RegisterRpcResume
    \/ FundRpcResume
    \/ RevokeSessionKey \/ RevokeStatusResume \/ RevokeRpcResume
    \/ Connect \/ Disconnect \/ RestoreResume \/ RegCheckResume

\* The commands whose submission can end in a timeout, from a page load on.
InitTimeout ==
    /\ InitState /\ NoSigning /\ SubsAtMount(0) /\ NoKeyLib /\ NoListing /\ DialogAtMount
    /\ budget = [ops |-> MaxTimeoutOps, cmds |-> MaxFullCmds]

NextTimeout ==
    \/ Connect \/ FetchResume \/ CheckBoardResume \/ RestoreResume \/ RegCheckResume
    \/ InitializeBoard \/ JoinGame
    \/ GameRpcOk \/ GameRpcFail \/ GameRpcTimeout \/ BoardRecheckResume \/ GameFetchResume
    \/ RegisterSessionKey \/ RegisterSignResume \/ RegisterStatusResume \/ RegisterRpcResume
    \/ RegisterRpcTimeout
    \/ RevokeSessionKey \/ RevokeStatusResume \/ RevokeRpcResume \/ RevokeRpcTimeout

\* The two snapshots under fetches, pushes and changes made elsewhere.
InitPush ==
    /\ InitState /\ NoSigning /\ SubsAtMount(0) /\ NoKeyLib /\ NoListing /\ DialogAtMount
    /\ cache = NoKey
    /\ budget = [ops |-> MaxPushOps, cmds |-> 0]

NextPush ==
    \/ Connect \/ FetchResume \/ HandleBaseChange \/ HandleErChange
    \/ EnvDelegate \/ EnvUndelegate \/ EnvMove \/ EnvFundAddress

\* The same where every read is answered and no data-less account appears.
NextDelivery ==
    \/ Connect \/ FetchDelivered \/ HandleBaseChange \/ HandleErChange
    \/ EnvDelegate \/ EnvUndelegate \/ EnvMove

NextBoard ==
    \/ Connect \/ Disconnect
    \/ FetchResume \/ HandleBaseChange \/ HandleErChange \/ CheckBoardResume
    \/ RestoreResume \/ RegCheckResume
    \/ InitializeBoard \/ JoinGame \/ MovePlayer \/ DelegatePlayer \/ UndelegatePlayer
    \/ CommitPlayer
    \/ GameRpcOk \/ GameRpcFail \/ GameRpcTimeout \/ BoardRecheckResume \/ GameFetchResume
    \/ EnvDelegate \/ EnvUndelegate

NextSession ==
    \/ Connect \/ Disconnect
    \/ RestoreResume \/ RegCheckResume
    \/ CreateSessionKey \/ CreateResume
    \/ RegisterSessionKey \/ RegisterSignResume \/ RegisterStatusResume \/ RegisterRpcResume
    \/ FundSessionKeyWallet \/ FundRpcResume
    \/ RevokeSessionKey \/ RevokeStatusResume \/ RevokeRpcResume
    \/ EnvDelegate \/ EnvUndelegate

Next ==
    \/ Connect \/ Disconnect
    \/ FetchResume \/ HandleBaseChange \/ HandleErChange \/ CheckBoardResume
    \/ RestoreResume \/ RegCheckResume
    \/ CreateSessionKey \/ CreateResume
    \/ RegisterSessionKey \/ RegisterSignResume \/ RegisterStatusResume \/ RegisterRpcResume
    \/ FundSessionKeyWallet \/ FundRpcResume
    \/ RevokeSessionKey \/ RevokeStatusResume \/ RevokeRpcResume
    \/ InitializeBoard \/ JoinGame \/ MovePlayer \/ DelegatePlayer \/ UndelegatePlayer
    \/ CommitPlayer
    \/ GameRpcOk \/ GameRpcFail \/ GameRpcTimeout \/ BoardRecheckResume \/ GameFetchResume
    \/ EnvDelegate \/ EnvUndelegate

\* The whole client; GameBoard with the hook's connect effects; the hook alone.
Spec == Init /\ [][Next]_vars
SpecBoard == InitBoard /\ [][NextBoard]_vars
SpecSession == InitSession /\ [][NextSession]_vars
\* SessionWallet signing, for every batch of transactions.
SpecSign == InitSign /\ [][NextSign]_vars
\* The subscription effect of GameBoard, for connects, switches of identity,
\* disconnects and the teardown.
SpecSub == InitSub /\ [][NextSub]_vars
SpecKey == InitKey /\ [][NextKey]_vars
SpecMove == InitMove /\ [][NextMove]_vars
SpecList == InitList /\ [][NextList]_vars
SpecOldHook == InitOldHook /\ [][NextOldHook]_vars
\* The snapshots of GameBoard against the ledgers.
SpecPush == InitPush /\ [][NextPush]_vars
\* Fair delivery: every read is answered, and the event loop runs every
\* response that has arrived and every notification that is queued, so a
\* fetchPlayerData that waits for a read does resume and a queued push is
\* handed to its listener.
SpecDelivery ==
    /\ InitPush /\ [][NextDelivery]_vars
    /\ WF_vars(FetchDelivered) /\ WF_vars(HandleBaseChange) /\ WF_vars(HandleErChange)
\* Submissions that end in a timeout.
SpecTimeout == InitTimeout /\ [][NextTimeout]_vars
\* The setup dialog driving the hook's commands.
SpecDialog == InitDialog /\ [][NextDialog]_vars

\* ================================================================ claims
\* The local credential is gone: no cache entry, no key, no wallet in memory.
LocalKeyCleared == cache = NoKey /\ sessionKey = NoKey /\ sessionWallet = NoKey

Outstanding == {i \in 1..MaxCmds : cmds[i].pc \in {"sign", "rpc"}}

\* C2: for one connected identity, at no time are two lifecycle signer
\* requests or on-chain submissions outstanding: a lifecycle command invoked
\* while another is in flight is rejected or queued.
C2_OneLifecycleCommandInFlight == Cardinality(Outstanding) <= 1

\* C3: every movePlayer submission goes to the rollup exactly when the
\* primary ledger's account owner, at the time of the submission, is not the
\* program; a delegation flag observed earlier and changed since on the
\* primary ledger never chooses the target ledger.
C3_MoveRoutedByLiveOwner ==
    lastTx.op = "movePlayer" => ((lastTx.ledger = "er") <=> lastTx.live)

\* The operations reserved to the primary identity.
PrimaryOnlyOps ==
    {"delegatePlayer", "undelegatePlayer", "commitPlayer", "registerSessionKey",
     "revokeSessionKey", "transfer"}

\* C4: delegatePlayer, undelegatePlayer, commitPlayer, registerSessionKey,
\* revokeSessionKey and the funding transfer are submitted only with the
\* primary identity as signer, whatever isRegistered and sessionWallet are.
C4_PrimaryOnlySigner == lastTx.op \in PrimaryOnlyOps => lastTx.signer = "primary"

\* undelegatePlayer is with the ledger while a registered session wallet is
\* held, the wallet a movePlayer would sign with.
C4_Witness ==
    /\ gcmd.op = "undelegatePlayer" /\ gcmd.pc = "rpc" /\ lastTx.op = "undelegatePlayer"
    /\ isRegistered /\ sessionWallet # NoKey /\ ActiveWallet # "primary"

\* C6: whenever the client observes the delegation owner going from rollup
\* to primary (isDelegated from true to false through a fetch or a push of
\* the primary ledger that shows the program as owner, or a successful
\* undelegatePlayer), the clearSessionOnUndelegate effects have happened: no
\* cache entry, no session key, no session wallet, isRegistered false.
C6_ClearedOnObservedUndelegation ==
    [][(isDelegated /\ ~isDelegated' /\ last' \in {"fetchInfo", "basePush"})
          => (LocalKeyCleared' /\ ~isRegistered')]_vars

\* C7, as stated: the reconciled player is the rollup snapshot when
\* isDelegated is true and a rollup snapshot is present, and the primary
\* snapshot in every other case, delegated with no rollup snapshot included.
C7_PlayerFallsBackToPrimary ==
    player = IF isDelegated /\ erPlayer # NoPlayer THEN erPlayer ELSE basePlayer

\* C7, amended: the reconciled player is the rollup snapshot whenever
\* isDelegated is true, present or not (delegated with no rollup snapshot
\* gives no player, and the join screen), and the primary snapshot whenever
\* isDelegated is false.
C7_PlayerFollowsFlag ==
    /\ isDelegated /\ erPlayer # NoPlayer => player = erPlayer
    /\ isDelegated /\ erPlayer = NoPlayer => player = NoPlayer /\ ~ShowsBoard
    /\ ~isDelegated => player = basePlayer

\* Delegated, a primary snapshot but no rollup snapshot: no player, and the
\* join screen is what a connected client shows.
C7_Witness ==
    /\ isDelegated /\ basePlayer # NoPlayer /\ erPlayer = NoPlayer
    /\ player = NoPlayer /\ ShowsJoin

\* C8: the primary-position marker is shown only when a primary snapshot and
\* a rollup snapshot both exist and their positions differ in x or in y.
C8_MarkerOnlyOnDivergence ==
    ShowsBaseMarker =>
        /\ basePlayer # NoPlayer /\ erPlayer # NoPlayer
        /\ (basePlayer.x # erPlayer.x \/ basePlayer.y # erPlayer.y)

\* The marker is shown: the rollup position has moved away from the primary.
C8_Witness ==
    /\ ShowsBaseMarker /\ erPlayer # NoPlayer
    /\ basePlayer.x = JoinX /\ basePlayer.y = JoinY
    /\ (erPlayer.x # JoinX \/ erPlayer.y # JoinY)

\* The fetchPlayerData calls that can be in flight: the one awaited by the
\* GameBoard command (0) and the effect-started ones.
CallIds == 0..MaxFetches
CallAt(i) == IF i = 0 THEN gcmd.f ELSE fetches[i]
RollupPcs == {"airdrop", "er"}

\* C9: a fetchPlayerData that finds the player account absent on the primary
\* ledger completes with the primary snapshot null, the rollup snapshot null
\* and isDelegated false, and attempts no rollup read.
C9_AbsentClearsAndReturns ==
    [][\A i \in CallIds :
          (CallAt(i).pc = "info" /\ baseOwner = "absent" /\ CallAt(i)' # CallAt(i))
             => /\ CallAt(i)' = NoFetch
                /\ basePlayer' = NoPlayer /\ erPlayer' = NoPlayer /\ ~isDelegated']_vars

\* A fetch has found the account absent and returned, the view empty, no
\* call on its way to the rollup.
C9_Witness ==
    /\ last = "fetchAbsent" /\ baseOwner = "absent"
    /\ basePlayer = NoPlayer /\ erPlayer = NoPlayer /\ ~isDelegated
    /\ \A i \in CallIds : CallAt(i).pc \notin RollupPcs

\* C10: a fetchPlayerData that finds the primary account present sets
\* isDelegated to (owner differs from the program id); if delegated it goes
\* on to the rollup read, whether the airdrop probe before it fails or not;
\* if not delegated it makes no rollup read and sets the rollup snapshot to
\* null.
C10_PresentFollowsOwner ==
    [][\A i \in CallIds :
          LET c == CallAt(i)
              d == CallAt(i)'
          IN  /\ (c.pc = "info" /\ d.pc = "base")
                    => (isDelegated' = (baseOwner # "program") /\ d.delegated = isDelegated')
              /\ (c.pc = "base" /\ c.delegated /\ d # c) => d.pc = "airdrop"
              /\ (c.pc = "airdrop" /\ d # c) => d.pc = "er"
              /\ (c.pc = "base" /\ ~c.delegated /\ d # c)
                    => (d = NoFetch /\ erPlayer' = NoPlayer)
              /\ d.pc \in RollupPcs => d.delegated]_vars

\* The rollup read has been made after a failed airdrop probe and has left a
\* rollup snapshot.
C10_Witness ==
    /\ last = "fetchErCold" /\ isDelegated /\ baseOwner = "delegation"
    /\ erPlayer # NoPlayer /\ erPlayer.isDelegated

\* The session public key of the SessionWallet in hand.
SessionPublicKey == sessionWallet

\* C5, as stated: every transaction returned by signTransaction or
\* signAllTransactions, legacy or versioned, has the session public key as
\* fee payer and never the primary identity's public key.
C5_FeePayerIsSessionKey ==
    signPc = "returned" =>
        \A i \in DOMAIN txs : txs[i].feePayer = SessionPublicKey /\ txs[i].feePayer # publicKey

\* C5, amended: every returned transaction carries the session key's
\* signature; a legacy transaction is returned with the session public key
\* as fee payer; a versioned transaction is returned with the fee payer it
\* was built with, which can be the primary identity's public key.
C5_FeePayerSetOnLegacyOnly ==
    signPc = "returned" =>
        \A i \in DOMAIN txs :
            /\ SessionPublicKey \in txs[i].sigs
            /\ txs[i].kind = "legacy" => txs[i].feePayer = SessionPublicKey
            /\ txs[i].kind = "versioned" => txs[i].feePayer = txOrig[i].feePayer

\* A batch of a legacy and a versioned transaction, both built with the
\* primary identity as fee payer, has been signed.
C5_Witness ==
    /\ signPc = "returned" /\ Len(txs) = 2
    /\ txs[1].kind = "legacy" /\ txOrig[1].feePayer = "A" /\ txs[1].feePayer = DerivedKey("A")
    /\ txs[2].kind = "versioned" /\ txOrig[2].feePayer = "A" /\ txs[2].feePayer = "A"
    /\ DerivedKey("A") \in txs[2].sigs

\* No subscribe or unsubscribe call is suspended at an await.
SubQuiescent == subCalls = <<>>

\* C11: after any sequence of connects, switches of identity, disconnects,
\* subscribe and unsubscribe calls (handles that are 0 and calls interleaved
\* at their awaits included), once the calls have completed at most one
\* change listener is installed per ledger and every installed listener is
\* for the account of the identity connected now.
C11_OneListenerOfConnectedIdentity ==
    SubQuiescent =>
        \A l \in Ledgers :
            /\ Cardinality(listeners[l]) <= 1
            /\ \A x \in listeners[l] : x.who = publicKey

\* C12: once unsubscribeFromUpdates has completed after a disconnect or the
\* teardown of the component, no change listener remains installed on either
\* ledger (and the call raises nothing and can be repeated).
C12_NoListenerAfterUnsubscribe ==
    (SubQuiescent /\ (publicKey = NoWallet \/ ~mounted)) =>
        \A l \in Ledgers : listeners[l] = {}

\* C13: the cache round-trips.  After getOrCreateSessionKey has stored or
\* loaded a key for an identity, the entry deserializes to that same key
\* (secret and public bytes) and hasSessionKey is true; a getOrCreate that
\* follows it for the same identity returns the same key without asking the
\* wallet; after clearSessionKey the entry is absent, hasSessionKey is false
\* and a load finds nothing.
C13_CacheRoundTrip ==
    [][/\ (keyOut'.op = "getOrCreate" /\ keyOut'.ok) =>
              /\ CachedTruthy(storage'[keyOut'.id])
              /\ Deserialize(storage'[keyOut'.id]) = [ok |-> TRUE, kp |-> keyOut'.kp]
              /\ HasSessionKey(storage'[keyOut'.id])
       /\ (/\ keyOut.op = "getOrCreate" /\ keyOut.ok
           /\ last' = "getOrCreateSessionKey" /\ keyOut'.id = keyOut.id) =>
              /\ keyOut'.ok /\ ~keyOut'.prompted
              /\ keyOut'.kp.secretKey = keyOut.kp.secretKey
              /\ keyOut'.kp.publicKey = keyOut.kp.publicKey
       /\ (keyOut.op = "getOrCreate" /\ keyOut.ok
           /\ last' = "hasSessionKey" /\ keyOut'.id = keyOut.id) => keyOut'.has
       /\ keyOut'.op = "clear" =>
              /\ ~HasSessionKey(storage'[keyOut'.id])
              /\ LoadOutcome(storage'[keyOut'.id]) = "none"
       /\ (keyOut.op = "clear" /\ last' = "hasSessionKey" /\ keyOut'.id = keyOut.id) =>
              ~keyOut'.has
       /\ (keyOut.op = "clear" /\ last' = "getOrCreateSessionKey"
           /\ keyOut'.id = keyOut.id) => keyOut'.prompted
      ]_vars
\* A key that was derived and stored has been loaded back from the cache.
C13_Witness ==
    /\ keyOut.op = "getOrCreate" /\ keyOut.ok /\ ~keyOut.prompted
    /\ deriveRuns[keyOut.id] = 1
    /\ keyOut.kp \in derivedKeys[keyOut.id]
    /\ storage[keyOut.id] = Serialize(keyOut.kp)

\* What is left in the cache cannot be turned into a key pair.
Undeserializable(e) == e.present /\ ~(CachedTruthy(e) /\ Deserialize(e).ok)

\* C14: with an entry that cannot be deserialized, getOrCreateSessionKey
\* asks the wallet for a signature; unless the wallet refuses, it returns
\* the derived key and the entry is replaced by that key's serialization.
\* The only failure is the wallet's refusal, and then the entry is as it was.
C14_CorruptEntryIsRederived ==
    [][\A id \in KeyIds :
          (/\ Undeserializable(storage[id])
           /\ last' = "getOrCreateSessionKey" /\ keyOut'.id = id /\ ops' = ops + 1) =>
              /\ keyOut'.prompted
              /\ deriveRuns'[id] = deriveRuns[id] + 1
              /\ IF keyOut'.ok
                 THEN /\ keyOut'.kp = DeriveResult(id, keyEnv, deriveRuns'[id])
                      /\ storage'[id] = Serialize(keyOut'.kp)
                      /\ Deserialize(storage'[id]) = [ok |-> TRUE, kp |-> keyOut'.kp]
                 ELSE storage'[id] = storage[id]
      ]_vars
\* A corrupted entry has been replaced by a freshly derived key.
C14_Witness ==
    /\ keyOut.op = "getOrCreate" /\ keyOut.lookup = "caught"
    /\ keyOut.ok /\ keyOut.prompted
    /\ storage[keyOut.id] = Serialize(keyOut.kp)

\* C15: for a fixed identity, origin and signer, every run of
\* deriveSessionKey that returns gives the same key pair, whether the wallet
\* signs the message or the memo transaction of the fallback path.
C15_DerivationDeterministic ==
    \A id \in KeyIds :
        /\ Cardinality(derivedKeys[id]) <= 1
        /\ (keyOut.ok /\ keyOut.prompted /\ keyOut.id = id) => derivedKeys[id] = {keyOut.kp}
\* Two runs on the fallback path have returned.
C15_Witness ==
    /\ ~keyEnv.hasSignMessage
    /\ \E id \in KeyIds : deriveRuns[id] >= 2 /\ derivedKeys[id] # {} /\ keyOut.ok
                          /\ keyOut.op = "derive" /\ keyOut.id = id

\* The steps of a registerSessionKey call.
RegisterLabels ==
    {"registerStart", "registerStartHit", "registerStartSign", "registerSigned",
     "registerNoKey", "registerSubmit", "registerOk", "registerFail"}

\* C16: registerSessionKey submits its instruction only on return from its
\* own read of the account owner on the primary ledger; the submission goes
\* to the rollup exactly when that read showed an owner other than the
\* program (so the owner is then not the program), otherwise to the primary
\* ledger; and a step of registerSessionKey makes isRegistered true only
\* when the submission it made has succeeded.
C16_RegisterRoutedByLiveRead ==
    [][/\ (last' = "registerSubmit" \/ (lastTx' # lastTx /\ lastTx'.op = "registerSessionKey")) =>
              \E i \in 1..MaxCmds :
                  /\ cmds[i].op = "register" /\ cmds[i].pc = "status"
                  /\ cmds'[i].pc = "rpc"
                  /\ cmds'[i].ledger = lastTx'.ledger
                  /\ lastTx'.ledger \in {"base", "er"}
                  /\ (lastTx'.ledger = "er") <=> cmds'[i].delegated
                  /\ cmds'[i].delegated => baseOwner \notin {"program", "absent"}
       /\ (last' \in RegisterLabels /\ isRegistered' /\ ~isRegistered) =>
              \E i \in 1..MaxCmds :
                  /\ cmds[i].op = "register" /\ cmds[i].pc = "rpc" /\ cmds'[i] = NoCmd
                  /\ last' = "registerOk"
                  /\ Accepts("registerSessionKey", HookWallet, cmds[i].ledger)
                  /\ (IF cmds[i].ledger = "base" THEN baseData' ELSE erData').sessionKey
                         = cmds[i].key
      ]_vars
\* A register submitted to the rollup after a read that showed delegation
\* has succeeded.
C16_Witness ==
    /\ last = "registerOk" /\ isRegistered
    /\ lastTx.op = "registerSessionKey" /\ lastTx.ledger = "er"
    /\ erData # NoAccount /\ erData.sessionKey # NoKey

\* C17: every transfer the hook submits is the one fundSessionKeyWallet
\* builds: sent on the primary ledger whoever owns the account at that
\* moment, 10,000,000 lamports from the primary identity to the session key
\* in memory, signed by the primary identity, which is also the fee payer.
C17_FundOnPrimaryLedger ==
    [][(last' = "fundStart" \/ (lastTx' # lastTx /\ lastTx'.op = "transfer")) =>
          /\ last' = "fundStart" /\ sessionKey # NoKey
          /\ lastTx'.op = "transfer"
          /\ lastTx'.ledger = "base"
          /\ lastTx'.lamports = 10000000
          /\ lastTx'.from = "primary" /\ lastTx'.to = sessionKey
          /\ lastTx'.feePayer = "primary" /\ lastTx'.signer = "primary"
          /\ \E i \in 1..MaxCmds : cmds'[i].op = "fund" /\ cmds'[i].ledger = "base"
      ]_vars
\* The transfer was sent on the primary ledger while the account was
\* delegated.
C17_Witness ==
    /\ last = "fundStart" /\ lastTx.op = "transfer" /\ lastTx.live
    /\ Delegated /\ lastTx.ledger = "base" /\ lastTx.to = sessionKey

\* C18: when the funding transfer that follows a successful register fails,
\* registerSessionKey still ends with isRegistered true; the session key,
\* the session wallet and the cache entry are what they were, the key stays
\* registered on the ledger, and the call ends (the failure is reported,
\* nothing is thrown to the caller).
C18_FundingFailureKeepsRegistration ==
    [][last' = "oldRegisterFundFail" =>
          /\ isRegistered'
          /\ sessionKey' = sessionKey /\ sessionWallet' = sessionWallet /\ cache' = cache
          /\ sessionKey' # NoKey
          /\ UNCHANGED ledgerVars
          /\ \E i \in 1..MaxCmds : cmds[i].pc = "fund" /\ cmds'[i] = NoCmd
      ]_vars
\* The funding failed after the register succeeded, from a state that was
\* not registered.
C18_Witness ==
    /\ last = "oldRegisterFundFail" /\ isRegistered
    /\ lastTx.op = "transfer" /\ baseData # NoAccount /\ baseData.sessionKey = sessionKey

\* C19: when the register submission of a registerSessionKey is rejected,
\* the hook's state on return (isRegistered, session key, session wallet,
\* cache entry) is the state it had when registerSessionKey was called, also
\* when it was called without a session key.
C19_RegisterFailureRestoresState ==
    [][\A i \in 1..MaxCmds :
          (/\ cmds[i].op = "register" /\ cmds[i].pc = "rpc" /\ cmds'[i] = NoCmd
           /\ last' = "registerFail") => HookState' = cmds[i].pre
      ]_vars

\* The steps of a revokeSessionKey call that does not succeed.
RevokeFailingLabels == {"revokeStart", "revokeSubmit", "revokeFail"}

\* C20: no step of a revokeSessionKey whose submission fails changes
\* isRegistered, the session key, the session wallet or the cache entry, so
\* on its return (false, from the catch block) they are what they were when
\* it was called: a session that was Active is Active again, and the ledgers
\* are untouched by the failed submission.
C20_RevokeFailureKeepsState ==
    [][/\ last' \in RevokeFailingLabels => HookState' = HookState
       /\ last' = "revokeFail" =>
              /\ \E i \in 1..MaxCmds :
                    cmds[i].op = "revoke" /\ cmds[i].pc = "rpc" /\ cmds'[i] = NoCmd
              /\ ~sessionLoading'
              /\ UNCHANGED ledgerVars
      ]_vars
\* The revoke of an Active session (registered, key in memory and cached)
\* has failed.
C20_Witness ==
    /\ last = "revokeFail" /\ lastTx.op = "revokeSessionKey"
    /\ isRegistered /\ sessionKey # NoKey /\ sessionWallet = sessionKey /\ cache = sessionKey

\* C21: a createSessionKey that fails (the wallet rejects, the signer
\* errs) ends its call by returning null: session key, session wallet,
\* cache entry and isRegistered are what they were before the step and the
\* loading flag is released; one that succeeds leaves a key that is held in
\* memory, wrapped in the session wallet and stored in the cache.  This
\* holds for a direct call and for the call made inside registerSessionKey.
C21_CreateFailsQuietly ==
    [][/\ last' \in {"createFail", "registerNoKey"} =>
              /\ HookState' = HookState
              /\ ~sessionLoading'
              /\ \E i \in 1..MaxCmds : cmds[i].pc = "sign" /\ cmds'[i] = NoCmd
       /\ last' \in {"createOk", "registerSigned", "createHit", "registerStartHit"} =>
              /\ sessionKey' # NoKey /\ sessionKey' # Corrupt
              /\ sessionWallet' = sessionKey' /\ cache' = sessionKey'
              /\ isRegistered' = isRegistered
      ]_vars
\* The wallet has rejected the derivation while the cache held a corrupted
\* entry, which is still there.
C21_Witness ==
    /\ last = "createFail" /\ cache = Corrupt /\ sessionKey = NoKey /\ ~sessionLoading

\* C22: connecting never leaves a signature request with the primary
\* signer: restoreSessionKey is never waiting for the signer and never ends
\* by a derivation; every pending derivation belongs to a createSessionKey
\* or registerSessionKey the user invoked.
C22_NoSigningOnConnect ==
    /\ restore # "sign"
    /\ last \notin {"restoreDerived", "restoreFail"}

\* C23: when checkRegistration's read of the player record on the ledger
\* that owns it shows no registered session key while the cache holds an
\* entry, the entry is removed and the session key in memory is cleared.
C23_UnlistedKeyIsDestroyed ==
    [][(/\ last' = "regCheckDone" /\ regCheck.pc = "fetch" /\ regCheck'.pc = "idle"
        /\ ~isRegistered' /\ cache # NoKey) =>
            (cache' = NoKey /\ sessionKey' = NoKey /\ sessionWallet' = NoKey)
      ]_vars

\* The entries of a listing or of allPlayers that belong to identity who.
EntriesOf(list, who) == {i \in DOMAIN list : list[i].authority = who}
EntryOf(list, who) == list[CHOOSE i \in DOMAIN list : list[i].authority = who]

\* C24: after a fetchAllPlayers that read both listings, allPlayers has
\* exactly one entry for each identity listed on either ledger and none for
\* any other; an identity whose primary entry was read as delegated shows
\* the rollup position when the rollup lists it (the primary one otherwise),
\* one whose primary entry was read as not delegated shows the primary
\* position even when the rollup lists it, and one listed on the rollup only
\* is shown at its rollup position, flagged delegated.
C24_OneEntryPerIdentity ==
    last = "allPlayers" =>
        LET b == ledgerPlayers.base
            e == ledgerPlayers.er
        IN  \A who \in Owners :
               LET inBase == EntriesOf(b, who) # {}
                   inEr == EntriesOf(e, who) # {}
                   shown == EntryOf(allPlayers, who)
                   flag == ledgerPlayers.delegated[CHOOSE i \in DOMAIN b : b[i].authority = who]
               IN  /\ Cardinality(EntriesOf(allPlayers, who))
                         = IF inBase \/ inEr THEN 1 ELSE 0
                   /\ (inBase /\ flag /\ inEr) =>
                         /\ <<shown.x, shown.y>> = <<EntryOf(e, who).x, EntryOf(e, who).y>>
                         /\ shown.isDelegated
                   /\ (inBase /\ flag /\ ~inEr) =>
                         /\ <<shown.x, shown.y>> = <<EntryOf(b, who).x, EntryOf(b, who).y>>
                         /\ shown.isDelegated
                   /\ (inBase /\ ~flag) =>
                         /\ <<shown.x, shown.y>> = <<EntryOf(b, who).x, EntryOf(b, who).y>>
                         /\ ~shown.isDelegated
                   /\ (~inBase /\ inEr) =>
                         /\ <<shown.x, shown.y>> = <<EntryOf(e, who).x, EntryOf(e, who).y>>
                         /\ shown.isDelegated
\* One identity is on both ledgers at different positions and not read as
\* delegated, the other is on the rollup only.
C24_Witness ==
    /\ last = "allPlayers" /\ Len(allPlayers) = 2
    /\ EntriesOf(ledgerPlayers.base, "A") # {} /\ EntriesOf(ledgerPlayers.er, "A") # {}
    /\ EntryOf(ledgerPlayers.base, "A").x # EntryOf(ledgerPlayers.er, "A").x
    /\ ~EntryOf(allPlayers, "A").isDelegated
    /\ EntriesOf(ledgerPlayers.base, "B") = {} /\ EntryOf(allPlayers, "B").isDelegated

DialogStartsCall == ~dialog.loading /\ dialog'.loading
\* The hook command the dialog's handleNext awaits returns in this step, or
\* the command it calls returns at once.
DialogCallReturns ==
    \/ dialog.awaits # 0 /\ cmds[dialog.awaits] # NoCmd /\ cmds'[dialog.awaits] = NoCmd
    \/ ops' = ops + 1 /\ dialog' # dialog /\ ~dialog'.loading

\* C26: within the setup dialog the steps are strictly ordered. The dialog
\* calls the funding command only at step 2 and the register command only at
\* step 1; step 2 is entered only when a register command the dialog awaited
\* has succeeded (the record on the ledger it was sent to then names the
\* key), step 1 only when a create command the dialog called has returned
\* a key; the key funded is the key registered (the wallet's derived key);
\* and a step that fails leaves currentStep where it was.
C26_StepsOrdered ==
    [][/\ (DialogStartsCall /\ last' = "fundStart") =>
              /\ dialog.currentStep = 2
              /\ lastTx'.to = DerivedKey(publicKey) /\ lastTx'.to # NoKey
       /\ (DialogStartsCall /\ last' \in {"registerStart", "registerStartHit",
                                           "registerStartSign"}) =>
              /\ dialog.currentStep = 1
       /\ (dialog'.currentStep = 2 /\ dialog.currentStep # 2) =>
              /\ last' = "registerOk"
              /\ dialog.awaits # 0 /\ cmds[dialog.awaits].op = "register"
              /\ cmds'[dialog.awaits] = NoCmd
              /\ dialog.call.step = 1
              /\ cmds[dialog.awaits].key = DerivedKey(publicKey)
              /\ (IF cmds[dialog.awaits].ledger = "base" THEN baseData' ELSE erData').sessionKey
                     = cmds[dialog.awaits].key
       /\ (dialog'.currentStep = 1 /\ dialog.currentStep # 1) =>
              /\ last' \in {"createOk", "createHit"}
              /\ sessionKey' = DerivedKey(publicKey)
              /\ dialog'.sessionKeyPubkey = sessionKey'
       /\ (DialogCallReturns /\ last' \in {"createFail", "registerNoKey", "registerFail",
                                            "fundFail", "fundNoKey"}) =>
              /\ dialog'.currentStep = dialog.currentStep
              /\ dialog'.error /\ ~dialog'.loading
      ]_vars
\* The dialog has submitted the funding transfer, the create and the
\* register step completed before it.
C26_Witness ==
    /\ last = "fundStart" /\ dialog.loading /\ dialog.call.step = 2
    /\ dialog.completedSteps = {0, 1} /\ lastTx.op = "transfer"


TimeoutLabels == {"initializeTimeout", "joinGameTimeout", "registerTimeout", "revokeTimeout"}
\* C27, as stated: when the submission of registerSessionKey,
\* revokeSessionKey, joinGame or initializeBoard ends in a timeout or expired
\* error, the step that handles it changes no local state and leaves the
\* operation running with a re-read of the on-chain state pending
\* (checkBoardInitialized, fetchPlayerData or a read of the player record);
\* the operation does not return before that read.
C27_TimeoutRereads ==
    [][(last' \in TimeoutLabels /\ (gcmd' # gcmd \/ cmds' # cmds)) =>
           /\ <<basePlayer, erPlayer, isDelegated, boardInitialized, sessionKey,
                sessionWallet, isRegistered, cache>>' =
              <<basePlayer, erPlayer, isDelegated, boardInitialized, sessionKey,
                sessionWallet, isRegistered, cache>>
           /\ \/ gcmd.pc = "rpc" /\ gcmd'.pc \in {"recheck", "fetch"}
              \/ \E i \in 1..MaxCmds :
                     cmds[i].pc = "rpc" /\ cmds'[i].op = cmds[i].op /\ cmds'[i].pc # "rpc"
      ]_vars


\* C28, as stated: after every push delivered to the primary-ledger
\* listener, isDelegated equals (the owner carried by that push differs from
\* the program id), whether or not the pushed data decodes into a player
\* record.
C28_PushSetsDelegation ==
    [][(last' = "basePush" /\ basePush # <<>> /\ basePush' = Tail(basePush)) =>
           isDelegated' = (Head(basePush).owner # "program")]_vars


LifecycleOps == {"create", "register", "fund", "revoke"}
\* A lifecycle command returns in this step: one that was suspended, or one
\* that returns without ever suspending (a cached key, no key to fund).
LifecycleReturns ==
    \/ \E i \in 1..MaxCmds : cmds[i].op \in LifecycleOps /\ cmds'[i] = NoCmd
    \/ ops' = ops + 1 /\ last' \in {"createHit", "fundNoKey"}
\* C29: every call of createSessionKey, registerSessionKey,
\* fundSessionKeyWallet or revokeSessionKey that set loading to true leaves
\* loading false when it returns, on success, on an early return and on
\* every error path, provided no other lifecycle command is still running.
C29_LoadingReleased ==
    [][(LifecycleReturns /\ \A i \in 1..MaxCmds : cmds'[i] = NoCmd) => ~sessionLoading']_vars
\* A revoke has failed and returned while nothing else was running.
C29_Witness ==
    /\ last = "revokeFail" /\ ~sessionLoading /\ \A i \in 1..MaxCmds : cmds[i] = NoCmd


\* Nothing is in flight: no fetchPlayerData is running and no notification
\* is queued.
AllDelivered ==
    /\ publicKey # NoWallet
    /\ \A i \in 1..MaxFetches : fetches[i] = NoFetch
    /\ basePush = <<>> /\ erPush = <<>>
\* The snapshots agree with the ledgers.
SlotsMatchLedgers ==
    /\ basePlayer = (IF baseData # NoAccount THEN PlayerData(baseData, FALSE) ELSE NoPlayer)
    /\ isDelegated = Delegated
    /\ Delegated => erPlayer = PlayerData(erData, TRUE)
\* C30, as stated: under fair delivery, from some point on (the ledgers have
\* stopped changing) whenever every fetch response and every notification
\* has been delivered, the primary slot equals the primary ledger's record,
\* isDelegated the primary ledger's ownership and, when delegated, the rollup
\* slot the rollup's record: no slot stays stale for ever.
C30_SlotsConverge == <>[](AllDelivered => SlotsMatchLedgers)


\* C31, as stated: the snapshots belong to the connected identity. While no
\* identity is connected both snapshots are null and isDelegated is false,
\* and a snapshot that is stored names the connected identity as its
\* authority, whatever fetch or push was in flight when the identity went.
C31_SnapshotsScoped ==
    /\ publicKey = NoWallet =>
           basePlayer = NoPlayer /\ erPlayer = NoPlayer /\ ~isDelegated
    /\ \A p \in {basePlayer, erPlayer} : p # NoPlayer => p.authority = publicKey


\* The snapshots and the flag the two listeners can write.
Slots == <<basePlayer, erPlayer, isDelegated>>
\* C32: each listener writes its own ledger's slot only. A rollup push
\* that decodes replaces the rollup snapshot and leaves the primary snapshot
\* and isDelegated alone; a primary push that decodes replaces the primary
\* snapshot and isDelegated and leaves the rollup snapshot alone; a push that
\* does not decode is consumed (the handler returns) with all three
\* unchanged.
C32_ListenersWriteOwnSlot ==
    [][/\ (last' = "erPush" /\ erPush # <<>> /\ erPush' = Tail(erPush)) =>
              /\ basePlayer' = basePlayer /\ isDelegated' = isDelegated
              /\ basePush' = basePush
              /\ IF Head(erPush).data # NoAccount
                 THEN erPlayer' = PlayerData(Head(erPush).data, TRUE)
                 ELSE erPlayer' = erPlayer
       /\ (last' = "basePush" /\ basePush # <<>> /\ basePush' = Tail(basePush)) =>
              /\ erPlayer' = erPlayer /\ erPush' = erPush
              /\ IF Head(basePush).data # NoAccount
                 THEN /\ basePlayer' = PlayerData(Head(basePush).data, FALSE)
                      /\ isDelegated' = (Head(basePush).owner # "program")
                 ELSE Slots' = Slots
      ]_vars
\* A push without a player record has been handed to the primary listener
\* and has left the flag as it was.
C32_Witness ==
    /\ last = "basePush" /\ baseOwner = "system" /\ basePush = <<>>
    /\ ~isDelegated /\ basePlayer = NoPlayer


\* This step is a call of getOrCreateSessionKey for id.
GetOrCreateFor(id) == ops' = ops + 1 /\ keyOut'.op = "getOrCreate" /\ keyOut'.id = id
\* C33: creating the session key is idempotent per identity. A call that
\* succeeds leaves a cache entry that reads back as the key pair it
\* returned; while that entry is there a call returns the key pair of the
\* entry without a run of the derivation (no signature is asked for); and
\* the entry changes only when clearSessionKey removes it (the call made by
\* revokeSessionKey and clearSessionOnUndelegate) or when a call that found
\* no usable entry stores a new one. So two calls in a row for one identity
\* return the same key pair.
C33_CreateIdempotent ==
    [][\A id \in KeyIds :
          /\ (GetOrCreateFor(id) /\ keyOut'.ok) =>
                 /\ Deserialize(storage'[id]).ok
                 /\ Deserialize(storage'[id]).kp = keyOut'.kp
          /\ (GetOrCreateFor(id) /\ Deserialize(storage[id]).ok) =>
                 /\ keyOut'.ok /\ keyOut'.kp = Deserialize(storage[id]).kp
                 /\ ~keyOut'.prompted
                 /\ deriveRuns' = deriveRuns /\ storage' = storage
          /\ (storage'[id] # storage[id]) =>
                 \/ keyOut'.op = "clear" /\ keyOut'.id = id /\ storage'[id] = NoEntry
                 \/ GetOrCreateFor(id) /\ ~Deserialize(storage[id]).ok /\ keyOut'.prompted
          /\ (GetOrCreateFor(id) /\ keyOut.op = "getOrCreate" /\ keyOut.id = id /\ keyOut.ok) =>
                 keyOut'.kp = keyOut.kp /\ ~keyOut'.prompted
      ]_vars
\* A call has derived and stored a key pair in this run and a later call
\* has returned it from the cache.
C33_Witness ==
    /\ keyOut.op = "getOrCreate" /\ keyOut.ok /\ ~keyOut.prompted /\ keyOut.lookup = "hit"
    /\ deriveRuns[keyOut.id] = 1 /\ keyOut.kp \in derivedKeys[keyOut.id]
    /\ storage[keyOut.id] = Serialize(keyOut.kp)


\* C34, as stated: when initializeBoard's submission has timed out and the
\* re-read of the board account has returned, "Board not initialized" is
\* emitted only if the re-read found the account absent; when it found the
\* account present, boardInitialized becomes true and no failure is
\* reported.
C34_ReportOnlyWhenAbsent ==
    [][(gcmd.op = "initialize" /\ gcmd.pc = "recheck" /\ gcmd' = NoGcmd) =>
           /\ last' \in {"recheckPresentReported", "recheckAbsentReported",
                         "recheckFailedReported"} => last' = "recheckAbsentReported"
           /\ last' \in {"recheckPresent", "recheckPresentReported"} =>
                  boardInitialized' /\ last' = "recheckPresent"
      ]_vars


\* The player record on the ledger that is authoritative now: the rollup
\* when the owner of the primary account is not the program.
AuthoritativeRecord == IF baseOwner # "program" THEN erData ELSE baseData
\* No lifecycle command is running and none has submitted a transaction.
NoLifecycleCommand == lastTx = NoTx /\ \A i \in 1..MaxCmds : cmds[i] = NoCmd
\* C35, as stated: when checkRegistration completes and no lifecycle command
\* has been interleaved, isRegistered is true exactly when a wallet is
\* connected, no read failed and the record on the authoritative ledger has
\* a session key; the in-memory session key is not changed.
C35_RegistrationMatchesLedger ==
    [][(regCheck.pc # "idle" /\ regCheck'.pc = "idle" /\ NoLifecycleCommand) =>
           /\ isRegistered' = (/\ publicKey # NoWallet
                               /\ last' = "regCheckDone"
                               /\ AuthoritativeRecord # NoAccount
                               /\ AuthoritativeRecord.sessionKey # NoKey)
           /\ sessionKey' = sessionKey /\ sessionWallet' = sessionWallet /\ cache' = cache
      ]_vars
\* The same statement for the completions that find the wallet still
\* connected; it holds, changes of the delegation made elsewhere between the
\* two reads included.
C35_HoldsWhileConnected ==
    [][(regCheck.pc # "idle" /\ regCheck'.pc = "idle" /\ NoLifecycleCommand /\ publicKey # NoWallet) =>
           /\ isRegistered' = (/\ last' = "regCheckDone"
                               /\ AuthoritativeRecord # NoAccount
                               /\ AuthoritativeRecord.sessionKey # NoKey)
           /\ sessionKey' = sessionKey /\ sessionWallet' = sessionWallet /\ cache' = cache
      ]_vars

====
